---- MODULE Spec2Model ----
(***************************************************************************)
(* Model of the NL-to-SQL pipeline: SQLGenerator (sql_generator.py),       *)
(* QueryExecutor and its validator (query_executor.py) and the call sites  *)
(* of app.py.                                                              *)
(*                                                                         *)
(* A Python string is modelled as a Text: a sequence of pieces, each piece *)
(* a literal fragment of an f-string or an interpolated value.  The piece  *)
(* "?" is the positional placeholder; no other piece contains a '?'.       *)
(* Where the characters matter (the validator) a string is a sequence of   *)
(* one-character strings, and Render turns a Text into characters.         *)
(***************************************************************************)
EXTENDS Integers, Sequences, FiniteSets, TLC

VARIABLES
    assumptions,   \* SQLGenerator.assumptions
    confidence,    \* SQLGenerator.confidence, an exact fraction [n, d]
    parameters,    \* SQLGenerator.parameters
    sql_result,    \* st.session_state.current_sql: the artifact the caller holds
    call,          \* the last call made on the generator and its arguments
    val_sql,       \* the argument of the last _validate_query call (characters)
    validation,    \* what that call returned
    exec_call,     \* the arguments of the last QueryExecutor.execute call
    conn_ops,      \* the operations that call performed on the connection
    exec_result,   \* what that call returned, or the exception it raised
    feedback_file, \* the content of feedback_log.json
    feedback_data, \* FeedbackManager.feedback_data of each session's instance
    fb_at,         \* where each instance is in add_feedback / _save_feedback
    persisted,     \* the log as the last completed add left it, and before
    judge_call,    \* the arguments and the API's answer of the last judge call
    judge_result,  \* what judge_query_quality returned, or what it raised
    learning_data, \* GroqLLMJudge.learning_data: evaluations and metrics
    user_query,    \* the sentence the user of this run types
    nl_query,      \* the text of the last call of parse
    first_parse,   \* what the first parse of user_query returned
    parser,        \* the attributes of the NaturalLanguageParser instance
    nl_confidence, \* what _calculate_confidence returned for the request
    artifact,      \* an artifact of generate() a caller kept, and its lists then
    patterns,      \* feedback_data['patterns'] of each session's instance
    hint,          \* the arguments of a _resolve_field_alias call
    resolution,    \* what that call returned
    mgr,           \* each session's SchemaManager: where it is, and its attributes
    heap,          \* the catalog dicts ever built, each by the tables it holds
    db,            \* the tables of the database file tally_database.db
    held           \* the dict each reader got from get_schema(), and its tables then

genVars == <<assumptions, confidence, parameters, sql_result, call>>
valVars == <<val_sql, validation>>
execVars == <<exec_call, conn_ops, exec_result>>
fbVars == <<feedback_file, feedback_data, fb_at, persisted>>
\* the variables of the components beside the generator and the executor
judgeVars == <<judge_call, judge_result, learning_data>>
nlVars == <<user_query, nl_query, first_parse, parser, nl_confidence>>
\* the variables of the schema catalog and of the feedback patterns
catVars == <<mgr, heap, db, held>>
restVars == <<patterns, hint, resolution, catVars>>
moreVars == <<artifact, restVars>>
sideVars == <<fbVars, judgeVars, nlVars, moreVars>>
\* the variables of the generator, the validator and the executor
mainVars == <<genVars, valVars, execVars>>
vars == <<assumptions, confidence, parameters, sql_result, call,
          val_sql, validation, exec_call, conn_ops, exec_result, sideVars>>

----------------------------------------------------------------------------
(* Bounds *)

\* longest list of conditions in a ParsedQuery
MaxConds == 2
\* a report is requested only while the generator carries at most this many
\* parameters from earlier calls
MaxCarried == 2

----------------------------------------------------------------------------
(* Strings *)

\* ''.join(texts)
RECURSIVE Concat(_)
Concat(texts) ==
    IF texts = <<>> THEN <<>> ELSE Head(texts) \o Concat(Tail(texts))

\* sep.join(texts)
RECURSIVE JoinWith(_, _)
JoinWith(texts, sep) ==
    IF texts = <<>> THEN <<>>
    ELSE IF Len(texts) = 1 THEN texts[1]
    ELSE texts[1] \o sep \o JoinWith(Tail(texts), sep)

\* text.count(piece)
CountPiece(text, piece) == Cardinality({i \in DOMAIN text : text[i] = piece})

\* the number of positional placeholders of a SQL text
Placeholders(text) == CountPiece(text, "?")

\* piece in text
Contains(text, piece) == \E i \in DOMAIN text : text[i] = piece

\* text.split(sep) for a separator that is one piece
RECURSIVE Split(_, _)
Split(text, sep) ==
    IF ~Contains(text, sep) THEN <<text>>
    ELSE LET i == CHOOSE k \in DOMAIN text :
                      text[k] = sep /\ \A j \in 1..(k - 1) : text[j] # sep
         IN  <<SubSeq(text, 1, i - 1)>> \o Split(SubSeq(text, i + 1, Len(text)), sep)

\* text.strip(): blanks are pieces of their own
RECURSIVE Strip(_)
Strip(text) ==
    IF text = <<>> THEN text
    ELSE IF Head(text) = " " THEN Strip(Tail(text))
    ELSE IF text[Len(text)] = " " THEN Strip(SubSeq(text, 1, Len(text) - 1))
    ELSE text

\* str.lower() of one piece of a condition value
LowerPiece(p) == IF p = " AND " THEN " and " ELSE p

\* text.lower()
Lower(text) == [i \in DOMAIN text |-> LowerPiece(text[i])]

----------------------------------------------------------------------------
(* Fractions, for the confidence *)

Frac(n, d) == [n |-> n, d |-> d]
Times(c, n, d) == [n |-> c.n * n, d |-> c.d * d]

----------------------------------------------------------------------------
(* Inputs of the generator *)

\* schema[table]['columns'], names only, of two tables of load_tally_schema
Schema ==
    [t \in {"mst_ledger", "config"} |->
        IF t = "mst_ledger"
        THEN <<"guid", "name", "closing_balance", "user_id", "company_name">>
        ELSE <<"name", "value", "user_id", "company_name">>]

\* parsed.user_filters as NaturalLanguageParser.parse builds it
UserFilters ==
    { [user_id |-> <<"demo_user">>, company_name |-> <<"Demo Company Ltd">>],
      [user_id |-> <<"u2">>, company_name |-> <<"Acme">>] }

Cond(f, op, v, ty) == [field |-> f, operator |-> op, value |-> v, type |-> ty]

\* one condition of parsed.conditions, a kind for every branch of the builders
Conditions ==
    { Cond("closing_balance", ">", <<"0">>, ""),
      Cond("name", "LIKE", <<"abc">>, ""),
      Cond("name", "IN", <<"a", ",", " ", "b">>, ""),
      Cond("closing_balance", "BETWEEN", <<"10", " AND ", "20">>, ""),
      Cond("closing_balance", "BETWEEN", <<"10">>, ""),
      Cond("date_of_release", "IS NULL", <<>>, ""),
      Cond("gstn", "raw_condition", <<"gstn IS NOT NULL">>, ""),
      Cond("date", "date_condition", <<"in ", "2024">>, "year"),
      Cond("date", "date_condition", <<"in ", "january", " ", "2024">>, "month_year"),
      Cond("date", "date_condition", <<"in the last ", "7", " ", "day", "s">>, "relative_date"),
      Cond("date", "date_condition", <<"since ", "2024-01-01">>, "since_date"),
      Cond("date", "date_condition", <<"this ", "month">>, "current_period"),
      Cond("date", "date_condition", <<"today">>, "year") }

\* the sequences over S of length n at most
SeqsUpTo(S, n) == UNION {[1..k -> S] : k \in 0..n}

ConditionLists == SeqsUpTo(Conditions, MaxConds)

TableLists ==
    { <<>>, <<"mst_ledger">>, <<"mst_ledger", "config">>, <<"unknown_t">> }

Agg(f, c) == [function |-> f, column |-> c]
LedgerJoin ==
    [type |-> "INNER", table1 |-> "mst_ledger", table2 |-> "trn_accounting",
     on |-> "trn_accounting.ledger = mst_ledger.name"]

Shape(cols, joins, aggs, grp, ord, lim) ==
    [columns |-> cols, joins |-> joins, aggregations |-> aggs,
     group_by |-> grp, order_by |-> ord, limit |-> lim]

\* the clauses of a SELECT other than WHERE; limit 0 is None
NoShape == Shape(<<>>, <<>>, <<>>, <<>>, <<>>, 0)
SelectShapes ==
    { NoShape,
      Shape(<<"*">>, <<>>, <<>>, <<>>, <<>>, 0),
      Shape(<<"name", "closing_balance">>, <<>>, <<>>, <<>>,
            <<[column |-> "name", direction |-> "DESC"]>>, 5),
      Shape(<<"mst_ledger.name", "*">>, <<>>, <<>>, <<>>, <<>>, 0),
      Shape(<<"*">>, <<>>, <<Agg("COUNT", "*")>>, <<>>, <<>>, 0),
      Shape(<<"name">>, <<>>, <<Agg("SUM", "closing_balance")>>, <<"name">>, <<>>, 0),
      Shape(<<"name", "closing_balance">>, <<>>, <<Agg("SUM", "closing_balance")>>,
            <<>>, <<>>, 0),
      Shape(<<"*">>, <<LedgerJoin>>, <<>>, <<>>, <<>>, 0) }

Parsed(action, tables, conds, shape, uf) ==
    [action |-> action, tables |-> tables, columns |-> shape.columns,
     conditions |-> conds, joins |-> shape.joins,
     aggregations |-> shape.aggregations, group_by |-> shape.group_by,
     order_by |-> shape.order_by, limit |-> shape.limit, user_filters |-> uf]

\* ParsedQuery values: a SELECT has any shape, the other actions have the
\* empty clauses _parse_insert_query, _parse_update_query and
\* _parse_delete_query give them; COUNT stands for an action generate() does
\* not know
ActionShapes ==
    ({"SELECT"} \X SelectShapes) \cup ({"INSERT", "UPDATE", "DELETE", "COUNT"} \X {NoShape})

ParsedQueries ==
    { Parsed(as[1], t, c, as[2], u) :
        as \in ActionShapes, t \in TableLists, c \in ConditionLists, u \in UserFilters }

ReportTypes == {"trial_balance", "stock_summary", "payroll_summary", "gst_report"}

----------------------------------------------------------------------------
(* SQLGenerator: the clause builders.  A builder takes the generator's     *)
(* fields st = [assumptions, confidence, parameters] and returns the text  *)
(* it produced with the fields as it left them.                            *)

Built(text, st) == [text |-> text, st |-> st]
Assume(st, a) == [st EXCEPT !.assumptions = Append(@, a)]
Bind(st, values) == [st EXCEPT !.parameters = @ \o values]
\* a generator whose factors raise the confidence: confidence /= n/d
ScaleUp(st, n, d) == [st EXCEPT !.confidence = Times(@, d, n)]
Scale(st, n, d) == [st EXCEPT !.confidence = Times(@, n, d)]
SetConfidence(st, n, d) == [st EXCEPT !.confidence = Frac(n, d)]

\* '.' in col
HasDot(col) == \E i \in 1..Len(col) : SubSeq(col, i, i) = "."

\* re.search(r'(\d{4})', value): the first four-digit piece, <<>> if none
Years == {"2024"}
YearMatch(value) ==
    LET hits == {i \in DOMAIN value : value[i] \in Years}
    IN  IF hits = {} THEN <<>>
        ELSE <<value[CHOOSE i \in hits : \A j \in hits : i <= j]>>

MonthNum(m) ==
    CASE m = "january" -> "01" [] m = "february" -> "02" [] m = "march" -> "03"
      [] m = "april" -> "04" [] m = "may" -> "05" [] m = "june" -> "06"
      [] m = "july" -> "07" [] m = "august" -> "08" [] m = "september" -> "09"
      [] m = "october" -> "10" [] m = "november" -> "11" [] m = "december" -> "12"
      [] OTHER -> "01"
Months ==
    {"january", "february", "march", "april", "may", "june", "july", "august",
     "september", "october", "november", "december"}

\* re.search(r'(january|...)\s+(\d{4})', value.lower()): <<month, year>> or <<>>
MonthYearMatch(value) ==
    LET v == Lower(value)
        hits == {i \in 1..(Len(v) - 2) :
                    v[i] \in Months /\ v[i + 1] = " " /\ v[i + 2] \in Years}
    IN  IF hits = {} THEN <<>>
        ELSE LET i == CHOOSE k \in hits : \A j \in hits : k <= j
             IN  <<v[i], v[i + 2]>>

Numbers == {"7", "10", "20", "0"}
Units == {"day", "month", "year"}
\* re.search(r'(\d+)\s+(day|month|year)', value): <<number, unit>> or <<>>
RelativeMatch(value) ==
    LET hits == {i \in 1..(Len(value) - 2) :
                    value[i] \in Numbers /\ value[i + 1] = " " /\ value[i + 2] \in Units}
    IN  IF hits = {} THEN <<>>
        ELSE LET i == CHOOSE k \in hits : \A j \in hits : k <= j
             IN  <<value[i], value[i + 2]>>

\* SQLGenerator._build_date_condition
BuildDateCondition(condition, st) ==
    LET field == condition.field
        value == condition.value
        ty == condition.type
        fallback == Built(<<field, " = ", "?">>, Bind(st, <<value>>))
    IN  CASE ty = "year" ->
               IF YearMatch(value) # <<>>
               THEN Built(<<"strftime('%Y', ", field, ") = '">> \o YearMatch(value) \o <<"'">>, st)
               ELSE fallback
          [] ty = "month_year" ->
               LET m == MonthYearMatch(value)
               IN  IF m # <<>>
                   THEN Built(<<"strftime('%Y-%m', ", field, ") = '", m[2], "-",
                                MonthNum(m[1]), "'">>, st)
                   ELSE fallback
          [] ty = "relative_date" ->
               LET m == RelativeMatch(value)
               IN  IF m # <<>>
                   THEN Built(<<field, " >= date('now', '-", m[1], " ", m[2], "s')">>,
                              Assume(st, <<"Interpreted '">> \o value \o
                                         <<"' as date range from today">>))
                   ELSE fallback
          [] ty = "today" -> Built(<<"date(", field, ") = date('now')">>, st)
          [] ty = "current_period" ->
               IF Contains(value, "month")
               THEN Built(<<"strftime('%Y-%m', ", field, ") = strftime('%Y-%m', 'now')">>, st)
               ELSE IF Contains(value, "year")
               THEN Built(<<"strftime('%Y', ", field, ") = strftime('%Y', 'now')">>, st)
               ELSE fallback
          [] ty = "last_period" ->
               IF Contains(value, "month")
               THEN Built(<<"strftime('%Y-%m', ", field,
                            ") = strftime('%Y-%m', date('now', '-1 month'))">>, st)
               ELSE IF Contains(value, "year")
               THEN Built(<<"strftime('%Y', ", field,
                            ") = strftime('%Y', date('now', '-1 year'))">>, st)
               ELSE fallback
          [] ty = "since_date" -> Built(<<field, " >= ", "?">>, Bind(st, <<value>>))
          [] ty = "before_date" -> Built(<<field, " < ", "?">>, Bind(st, <<value>>))
          [] ty = "on_date" -> Built(<<"date(", field, ") = ", "?">>, Bind(st, <<value>>))
          [] OTHER -> fallback

\* the conditions list and the fields while a WHERE clause is being built
Acc(conditions, st) == [conditions |-> conditions, st |-> st]
AddCond(acc, b) == Acc(Append(acc.conditions, b.text), b.st)

\* the IN branch (lines 190-193)
InCond(acc, field, values) ==
    AddCond(acc, Built(<<field, " IN (">>
                       \o JoinWith([i \in DOMAIN values |-> <<"?">>], <<", ">>) \o <<")">>,
                       Bind(acc.st, values)))
StripAll(parts) == [i \in DOMAIN parts |-> Strip(parts[i])]

\* the BETWEEN branch with ' and ' in the value (lines 196-198)
BetweenCond(acc, field, parts) ==
    AddCond(acc, Built(<<field, " BETWEEN ", "?", " AND ", "?">>,
                       Bind(acc.st, <<Strip(parts[1]), Strip(parts[2])>>)))

\* one turn of the loop of _build_where_clause (lines 171-204)
WhereStep(acc, condition) ==
    CASE condition.operator = "date_condition" ->
           \* the text returned is never empty
           AddCond(acc, BuildDateCondition(condition, acc.st))
      [] condition.operator = "raw_condition" -> AddCond(acc, Built(condition.value, acc.st))
      [] condition.operator \in {"IS NULL", "IS NOT NULL"} ->
           AddCond(acc, Built(<<condition.field, " ", condition.operator>>, acc.st))
      [] condition.operator = "LIKE" ->
           AddCond(acc, Built(<<condition.field, " LIKE ", "?">>,
                Assume(Bind(acc.st, <<(<<"%">> \o condition.value \o <<"%">>)>>),
                       <<"Searching for partial match in ", condition.field>>)))
      [] condition.operator = "IN" ->
           InCond(acc, condition.field, StripAll(Split(condition.value, ",")))
      [] condition.operator = "BETWEEN" ->
           IF Contains(Lower(condition.value), " and ")
           THEN BetweenCond(acc, condition.field, Split(Lower(condition.value), " and "))
           ELSE AddCond(acc, Built(<<condition.field, " ", condition.operator, " ", "?">>,
                                   Bind(acc.st, <<condition.value>>)))
      [] OTHER ->
           AddCond(acc, Built(<<condition.field, " ", condition.operator, " ", "?">>,
                              Bind(acc.st, <<condition.value>>)))

RECURSIVE WhereLoop(_, _)
WhereLoop(acc, conds) ==
    IF conds = <<>> THEN acc ELSE WhereLoop(WhereStep(acc, Head(conds)), Tail(conds))

\* the mandatory filters every WHERE clause starts with (lines 162-166,
\* 359-362 and 403-406)
TenantFirst(parsed, st) ==
    Acc(<< <<"user_id", " = ", "?">>, <<"company_name", " = ", "?">> >>,
        Bind(Bind(st, <<parsed.user_filters.user_id>>),
             <<parsed.user_filters.company_name>>))

\* f"WHERE {' AND '.join(conditions)}"
WhereText(acc) ==
    Built(<<"WHERE ">> \o JoinWith(acc.conditions, <<" AND ">>), acc.st)

NoteIsolation(acc) ==
    Acc(acc.conditions,
        Assume(acc.st, <<"Added mandatory user and company filters for data isolation">>))

\* SQLGenerator._build_where_clause
BuildWhereClause(parsed, st) ==
    WhereText(WhereLoop(NoteIsolation(TenantFirst(parsed, st)), parsed.conditions))

----------------------------------------------------------------------------
(* SQLGenerator: the statements *)

\* what a method returned: the text and the fields, or the exception raised
Returned(text, st) == [raised |-> "", text |-> text, st |-> st]
Raised(exc, st) == [raised |-> exc, text |-> <<>>, st |-> st]

AggColumns(parsed) ==
    {parsed.aggregations[i].column : i \in DOMAIN parsed.aggregations}

\* SQLGenerator._build_select_clause.  It reads `schema`, a name it does not
\* have, to prefix a plain column when there are several tables.
BuildSelectClause(parsed, st) ==
    IF parsed.aggregations # <<>>
    THEN LET aggs == [i \in DOMAIN parsed.aggregations |->
                        LET agg == parsed.aggregations[i]
                        IN  IF agg.function = "COUNT" /\ agg.column = "*"
                            THEN <<"COUNT(*)">>
                            ELSE <<agg.function, "(", agg.column, ")">>]
             grouped == SelectSeq(parsed.group_by, LAMBDA col : col \notin AggColumns(parsed))
             items == aggs \o [i \in DOMAIN grouped |-> <<grouped[i]>>]
         IN  Returned(<<"SELECT ">> \o JoinWith(items, <<", ">>), st)
    ELSE IF parsed.columns # <<>>
    THEN IF parsed.columns = <<"*">>
         THEN Returned(<<"SELECT ", "*">>, st)
         ELSE LET cols == [i \in DOMAIN parsed.columns |-> <<parsed.columns[i]>>]
              IN  IF Len(parsed.tables) > 1
                  THEN IF \E i \in DOMAIN parsed.columns :
                              ~HasDot(parsed.columns[i]) /\ parsed.columns[i] # "*"
                       THEN Raised("NameError", st)
                       ELSE Returned(<<"SELECT ">> \o JoinWith(cols, <<", ">>), st)
                  ELSE Returned(<<"SELECT ">> \o JoinWith(cols, <<", ">>), st)
    ELSE Returned(<<"SELECT ", "*">>,
                  Scale(Assume(st, <<"No specific columns mentioned, selecting all columns">>),
                        8, 10))

\* SQLGenerator._build_from_clause
BuildFromClause(parsed, st) ==
    IF parsed.tables = <<>>
    THEN Built(<<"FROM ", "unknown_table">>,
               Scale(Assume(st, <<"No tables identified, query may fail">>), 1, 10))
    ELSE Built(<<"FROM ", parsed.tables[1]>>, st)

\* SQLGenerator._build_join_clauses: the clauses, one text each
RECURSIVE BuildJoinClauses(_, _, _)
BuildJoinClauses(joins, clauses, st) ==
    IF joins = <<>> THEN [clauses |-> clauses, st |-> st]
    ELSE LET join == Head(joins)
         IN  BuildJoinClauses(Tail(joins),
                 Append(clauses, <<join.type, " JOIN ", join.table2, " ON ", join.on>>),
                 Scale(Assume(st, <<"Joined ", join.table1, " with ", join.table2,
                                    " using ", join.type, " JOIN">>), 9, 10))

\* SQLGenerator._build_group_by_clause: <<>> is the empty string
BuildGroupByClause(parsed, st) ==
    IF parsed.group_by # <<>>
    THEN Built(<<"GROUP BY ">> \o
               JoinWith([i \in DOMAIN parsed.group_by |-> <<parsed.group_by[i]>>], <<", ">>), st)
    ELSE IF parsed.aggregations # <<>> /\ parsed.columns # <<>>
    THEN LET non_agg == SelectSeq(parsed.columns,
                            LAMBDA col : col # "*" /\ col \notin AggColumns(parsed))
         IN  IF non_agg # <<>>
             THEN Built(<<"GROUP BY ">> \o
                        JoinWith([i \in DOMAIN non_agg |-> <<non_agg[i]>>], <<", ">>),
                        Scale(Assume(st, <<"Grouping by non-aggregated columns">>), 9, 10))
             ELSE Built(<<>>, st)
    ELSE Built(<<>>, st)

\* SQLGenerator._build_order_by_clause
BuildOrderByClause(parsed) ==
    <<"ORDER BY ">> \o
    JoinWith([i \in DOMAIN parsed.order_by |->
                <<parsed.order_by[i].column, " ", parsed.order_by[i].direction>>], <<", ">>)

\* query_parts and the fields while _generate_select runs
Parts(parts, st) == [parts |-> parts, st |-> st]
Then(q, built) == Parts(Append(q.parts, built.text), built.st)

FromPart(parsed, q) == Then(q, BuildFromClause(parsed, q.st))

JoinsDone(q, joined) == Parts(q.parts \o joined.clauses, joined.st)
JoinPart(parsed, q) ==
    IF parsed.joins # <<>> THEN JoinsDone(q, BuildJoinClauses(parsed.joins, <<>>, q.st))
    ELSE q

WherePart(parsed, q) == Then(q, BuildWhereClause(parsed, q.st))

GroupDone(q, built) == IF built.text # <<>> THEN Then(q, built) ELSE Parts(q.parts, built.st)
GroupPart(parsed, q) ==
    IF parsed.group_by # <<>> \/ parsed.aggregations # <<>>
    THEN GroupDone(q, BuildGroupByClause(parsed, q.st))
    ELSE q

OrderPart(parsed, q) ==
    IF parsed.order_by # <<>> THEN Then(q, Built(BuildOrderByClause(parsed), q.st)) ELSE q

LimitPart(parsed, q) ==
    IF parsed.limit # 0 THEN Then(q, Built(<<"LIMIT ", ToString(parsed.limit)>>, q.st))
    ELSE q

\* '\n'.join(query_parts)
JoinParts(q) == Returned(JoinWith(q.parts, <<"\n">>), q.st)

\* _generate_select after the SELECT clause (lines 45-73)
SelectRest(parsed, sel) ==
    IF sel.raised # "" THEN sel
    ELSE JoinParts(LimitPart(parsed, OrderPart(parsed, GroupPart(parsed,
             WherePart(parsed, JoinPart(parsed, FromPart(parsed,
                 Parts(<<sel.text>>, sel.st))))))))

\* SQLGenerator._generate_select
GenerateSelect(parsed, st) == SelectRest(parsed, BuildSelectClause(parsed, st))

\* the columns of an INSERT (lines 324-335)
InsertColumns(kept) ==
    kept
    \o (IF \A i \in DOMAIN kept : kept[i] # "user_id" THEN <<"user_id">> ELSE <<>>)
    \o (IF \A i \in DOMAIN kept : kept[i] # "company_name" THEN <<"company_name">> ELSE <<>>)

InsertText(table, columns) ==
    <<"INSERT INTO ", table, " (">>
    \o JoinWith([i \in DOMAIN columns |-> <<columns[i]>>], <<", ">>)
    \o <<") VALUES (">> \o JoinWith([i \in DOMAIN columns |-> <<"?">>], <<", ">>)
    \o <<")">>

InsertInto(table, st) ==
    IF table \in DOMAIN Schema
    THEN Returned(InsertText(table,
                      InsertColumns(SelectSeq(Schema[table],
                          LAMBDA c : c # "guid" \/ c \in {"user_id", "company_name"}))), st)
    ELSE Returned(<<"INSERT INTO ", table, " VALUES (", "?", ")">>, st)

\* SQLGenerator._generate_insert
GenerateInsert(parsed, st) ==
    IF parsed.tables = <<>>
    THEN Returned(<<"--", " Unable to generate INSERT query: no table specified">>,
                  SetConfidence(st, 1, 10))
    ELSE InsertInto(parsed.tables[1],
             SetConfidence(
                 Assume(st, <<"INSERT query requires values and mandatory user/company fields">>),
                 7, 10))

\* one turn of the loop _generate_update and _generate_delete share
\* (lines 366-381 and 410-425)
MutationStep(acc, condition) ==
    CASE condition.operator = "date_condition" ->
           AddCond(acc, BuildDateCondition(condition, acc.st))
      [] condition.operator = "raw_condition" -> AddCond(acc, Built(condition.value, acc.st))
      [] condition.operator \in {"IS NULL", "IS NOT NULL"} ->
           AddCond(acc, Built(<<condition.field, " ", condition.operator>>, acc.st))
      [] OTHER ->
           AddCond(acc, Built(<<condition.field, " ", condition.operator, " ", "?">>,
                              Bind(acc.st, <<condition.value>>)))

RECURSIVE MutationLoop(_, _)
MutationLoop(acc, conds) ==
    IF conds = <<>> THEN acc
    ELSE MutationLoop(MutationStep(acc, Head(conds)), Tail(conds))

\* the WHERE conditions of an UPDATE or a DELETE: the loop, or the warning
\* with the confidence scaled by n/10 when there are no conditions
MutationWhere(parsed, first, warning, n) ==
    IF parsed.conditions # <<>> THEN MutationLoop(first, parsed.conditions)
    ELSE Acc(first.conditions, Scale(Assume(first.st, warning), n, 10))

\* the SET clause of _generate_update (line 353)
SetClause == <<"SET column_name = ", "?">>

UpdateText(table, where) ==
    Returned(JoinWith(<< <<"UPDATE ", table>>, SetClause, where.text >>, <<"\n">>), where.st)

\* SQLGenerator._generate_update
GenerateUpdate(parsed, st) ==
    IF parsed.tables = <<>>
    THEN Returned(<<"--", " Unable to generate UPDATE query: no table specified">>,
                  SetConfidence(st, 1, 10))
    ELSE UpdateText(parsed.tables[1],
             WhereText(MutationWhere(parsed,
                 TenantFirst(parsed,
                     SetConfidence(
                         Assume(st, <<"UPDATE query requires SET values and WHERE conditions">>),
                         7, 10)),
                 <<"No specific WHERE conditions - will update all records for this user/company">>,
                 5)))

DeleteText(table, where) ==
    Returned(JoinWith(<< <<"DELETE FROM ", table>>, where.text >>, <<"\n">>), where.st)

\* SQLGenerator._generate_delete
GenerateDelete(parsed, st) ==
    IF parsed.tables = <<>>
    THEN Returned(<<"--", " Unable to generate DELETE query: no table specified">>,
                  SetConfidence(st, 1, 10))
    ELSE DeleteText(parsed.tables[1],
             WhereText(MutationWhere(parsed, TenantFirst(parsed, st),
                 <<"No specific WHERE conditions - this would delete ALL records for this user/company">>,
                 2)))

\* the fields as generate() resets them (lines 14-16)
FreshFields == [assumptions |-> <<>>, confidence |-> Frac(1, 1), parameters |-> <<>>]

\* SQLGenerator.generate, up to the return
GenerateQuery(parsed) ==
    CASE parsed.action = "SELECT" -> GenerateSelect(parsed, FreshFields)
      [] parsed.action = "INSERT" -> GenerateInsert(parsed, FreshFields)
      [] parsed.action = "UPDATE" -> GenerateUpdate(parsed, FreshFields)
      [] parsed.action = "DELETE" -> GenerateDelete(parsed, FreshFields)
      [] OTHER -> GenerateSelect(parsed, FreshFields)

----------------------------------------------------------------------------
(* SQLGenerator: the report templates *)

\* the text _generate_trial_balance returns (stripped)
TrialBalanceSQL ==
    << "SELECT \n",
       "    l.name as ledger_name,\n",
       "    l.opening_balance,\n",
       "    COALESCE(SUM(CASE WHEN a.amount > 0 THEN a.amount ELSE 0 END), 0) as total_debit,\n",
       "    COALESCE(SUM(CASE WHEN a.amount < 0 THEN ABS(a.amount) ELSE 0 END), 0) as total_credit,\n",
       "    l.closing_balance\n",
       "FROM mst_ledger l\n",
       "LEFT JOIN trn_accounting a ON l.name = a.ledger \n",
       "    AND a.user_id = ",
       "?",
       " AND a.company_name = ",
       "?",
       "\n",
       "WHERE l.user_id = ",
       "?",
       " AND l.company_name = ",
       "?",
       "\n",
       "GROUP BY l.name, l.opening_balance, l.closing_balance\n",
       "ORDER BY ABS(l.closing_balance) DESC" >>

\* the text _generate_stock_summary returns (stripped)
StockSummarySQL ==
    << "SELECT \n",
       "    s.name as item_name,\n",
       "    s.opening_balance,\n",
       "    s.opening_value,\n",
       "    COALESCE(SUM(CASE WHEN i.quantity > 0 THEN i.quantity ELSE 0 END), 0) as total_inward,\n",
       "    COALESCE(SUM(CASE WHEN i.quantity < 0 THEN ABS(i.quantity) ELSE 0 END), 0) as total_outward,\n",
       "    s.closing_balance,\n",
       "    s.closing_value,\n",
       "    s.gst_rate,\n",
       "    s.gst_hsn_code\n",
       "FROM mst_stock_item s\n",
       "LEFT JOIN trn_inventory i ON s.name = i.item \n",
       "    AND i.user_id = ",
       "?",
       " AND i.company_name = ",
       "?",
       "\n",
       "WHERE s.user_id = ",
       "?",
       " AND s.company_name = ",
       "?",
       "\n",
       "GROUP BY s.name, s.opening_balance, s.opening_value, s.closing_balance, s.closing_value, s.gst_rate, s.gst_hsn_code\n",
       "ORDER BY s.closing_value DESC" >>

\* the text _generate_payroll_summary returns (stripped)
PayrollSummarySQL ==
    << "SELECT \n",
       "    e.name as employee_name,\n",
       "    e.designation,\n",
       "    e.location,\n",
       "    SUM(CASE WHEN p.payhead_name LIKE '%Basic%' THEN p.amount ELSE 0 END) as basic_pay,\n",
       "    SUM(CASE WHEN p.payhead_name LIKE '%Allowance%' THEN p.amount ELSE 0 END) as allowances,\n",
       "    SUM(CASE WHEN p.payhead_name LIKE '%Deduction%' THEN p.amount ELSE 0 END) as deductions,\n",
       "    SUM(p.amount) as net_pay,\n",
       "    COALESCE(SUM(a.time_value), 0) as total_hours\n",
       "FROM mst_employee e\n",
       "LEFT JOIN trn_payhead p ON e.name = p.employee_name \n",
       "    AND p.user_id = ",
       "?",
       " AND p.company_name = ",
       "?",
       "\n",
       "LEFT JOIN trn_attendance a ON e.name = a.employee_name \n",
       "    AND a.user_id = ",
       "?",
       " AND a.company_name = ",
       "?",
       "\n",
       "WHERE e.user_id = ",
       "?",
       " AND e.company_name = ",
       "?",
       "\n",
       "GROUP BY e.name, e.designation, e.location\n",
       "ORDER BY net_pay DESC" >>

\* the text _generate_gst_report returns (stripped)
GstReportSQL ==
    << "SELECT \n",
       "    l.name as party_name,\n",
       "    l.gstn,\n",
       "    l.gst_registration_type,\n",
       "    SUM(CASE WHEN a.amount > 0 THEN a.amount ELSE 0 END) as taxable_amount,\n",
       "    SUM(CASE WHEN a.amount > 0 THEN a.amount * (l.tax_rate/100) ELSE 0 END) as gst_amount,\n",
       "    l.tax_rate as gst_rate\n",
       "FROM mst_ledger l\n",
       "INNER JOIN trn_accounting a ON l.name = a.ledger \n",
       "    AND a.user_id = ",
       "?",
       " AND a.company_name = ",
       "?",
       "\n",
       "WHERE l.user_id = ",
       "?",
       " AND l.company_name = ",
       "?",
       "\n",
       "    AND l.gstn IS NOT NULL \n",
       "    AND l.gstn != ''\n",
       "GROUP BY l.name, l.gstn, l.gst_registration_type, l.tax_rate\n",
       "HAVING SUM(CASE WHEN a.amount > 0 THEN a.amount ELSE 0 END) > 0\n",
       "ORDER BY SUM(CASE WHEN a.amount > 0 THEN a.amount ELSE 0 END) DESC" >>

\* the identity pair, n times over, as the templates extend the parameters
RECURSIVE TenantPairs(_, _)
TenantPairs(parsed, n) ==
    IF n = 0 THEN <<>>
    ELSE <<parsed.user_filters.user_id, parsed.user_filters.company_name>>
         \o TenantPairs(parsed, n - 1)

\* SQLGenerator._generate_trial_balance
GenerateTrialBalance(parsed, st) ==
    Returned(TrialBalanceSQL,
             Bind(Assume(st, <<"Generated comprehensive Trial Balance report">>),
                  TenantPairs(parsed, 1)))

\* SQLGenerator._generate_stock_summary
GenerateStockSummary(parsed, st) ==
    Returned(StockSummarySQL,
             Bind(Assume(st, <<"Generated comprehensive Stock Summary report">>),
                  TenantPairs(parsed, 2)))

\* SQLGenerator._generate_payroll_summary
GeneratePayrollSummary(parsed, st) ==
    Returned(PayrollSummarySQL,
             Bind(Assume(st, <<"Generated Employee Payroll Summary report">>),
                  TenantPairs(parsed, 3)))

\* SQLGenerator._generate_gst_report
GenerateGstReport(parsed, st) ==
    Returned(GstReportSQL,
             Bind(Assume(st, <<"Generated GST Summary report">>),
                  TenantPairs(parsed, 2)))

\* SQLGenerator.generate_tally_report_query: it starts from the fields as the
\* earlier calls left them; profit_loss and balance_sheet name methods the
\* class does not have
GenerateTallyReportQuery(report_type, parsed, st) ==
    CASE report_type = "trial_balance" -> GenerateTrialBalance(parsed, st)
      [] report_type \in {"profit_loss", "balance_sheet"} -> Raised("AttributeError", st)
      [] report_type = "stock_summary" -> GenerateStockSummary(parsed, st)
      [] report_type = "payroll_summary" -> GeneratePayrollSummary(parsed, st)
      [] report_type = "gst_report" -> GenerateGstReport(parsed, st)
      [] OTHER -> GenerateSelect(parsed, st)

----------------------------------------------------------------------------
(* The generator in the application *)

Fields == [assumptions |-> assumptions, confidence |-> confidence,
           parameters |-> parameters]

NoResult == [query |-> <<>>, parameters |-> <<>>, assumptions |-> <<>>,
             confidence |-> Frac(0, 1)]

\* a request of the user, parsed: which button, and parser.parse's result
Request(op, report_type, parsed) ==
    [op |-> op, report_type |-> report_type, parsed |-> parsed,
     status |-> "parsed", raised |-> ""]
NoCall == [op |-> "none", report_type |-> "", parsed |-> <<>>,
           status |-> "done", raised |-> ""]

\* SQLGenerator.__init__ (lines 7-10)
InitFields ==
    /\ assumptions = <<>>
    /\ confidence = Frac(0, 1)
    /\ parameters = <<>>

InitVal ==
    /\ val_sql = <<>>
    /\ validation = <<>>

InitExec ==
    /\ exec_call = [via |-> "none", sql_query |-> <<>>, connection |-> "None",
                    parameters |-> <<>>, args |-> 0, status |-> "done"]
    /\ conn_ops = <<>>
    /\ exec_result = <<>>

\* no feedback given yet: feedback_log.json holds an empty log, no
\* FeedbackManager is constructed
InitFeedback ==
    /\ feedback_file = [data |-> <<>>, whole |-> TRUE, patterns |-> <<>>]
    /\ feedback_data = [s \in {"s1", "s2"} |-> [sessions |-> <<>>, llm_evaluations |-> <<>>]]
    /\ fb_at = [s \in {"s1", "s2"} |-> [at |-> "new", written |-> 0, torn |-> FALSE]]
    /\ persisted = [before |-> <<>>, added |-> <<>>, now |-> <<>>]

\* GroqLLMJudge.load_learning_data with no llm_learning_data.json yet
InitJudge ==
    /\ judge_call = <<>>
    /\ judge_result = <<>>
    /\ learning_data = [evaluations |-> 0, total_queries |-> 0, llm_approved_queries |-> 0]

\* no NaturalLanguageParser is constructed, nothing is typed
InitNoParser ==
    /\ user_query = ""
    /\ nl_query = ""
    /\ first_parse = <<>>
    /\ parser = <<>>
    /\ nl_confidence = <<>>

\* no caller has kept an artifact
InitMore ==
    /\ artifact = <<>>
    /\ patterns = [s \in {"s1", "s2"} |-> <<>>]
    /\ hint = [field |-> "", tables |-> <<>>]
    /\ resolution = <<>>
    /\ mgr = [s \in {"s1", "s2"} |->
                [pc |-> "none", schema |-> 0, connection |-> "None",
                 published |-> FALSE, found |-> "", reloads |-> 0]]
    /\ heap = <<>>
    /\ db = {}
    /\ held = [s \in {"s1", "s2"} |-> <<>>]

InitSide == InitFeedback /\ InitJudge /\ InitNoParser /\ InitMore

\* the first half of a button handler (app.py 310-329 and 381-388): the
\* query is parsed; the parser's result is any ParsedQuery of `queries`
Parse(op, report_type, parsed) ==
    /\ call.status = "done"
    /\ op = "report" => Len(parameters) <= MaxCarried
    /\ call' = Request(op, report_type, parsed)
    /\ UNCHANGED <<assumptions, confidence, parameters, sql_result, valVars, execVars, sideVars>>

\* the generator's fields after a call, and current_sql: the artifact
\* generate() returned (lines 29-35), or for a report the dict the handler
\* puts together (app.py 336-341); an exception leaves current_sql as it was
\* the lists of an artifact a caller kept are the generator's own lists
\* (lines 29-35 return self.parameters and self.assumptions, no copies):
\* generate() rebinds the attributes to new lists (lines 14-16), a report
\* appends to the lists that are there (lines 455-458)
Aliased(kept, st, report) ==
    IF kept = <<>> THEN kept
    ELSE IF ~report THEN <<[kept[1] EXCEPT !.shared = FALSE]>>
    ELSE IF kept[1].shared
    THEN <<[kept[1] EXCEPT !.parameters = st.parameters, !.assumptions = st.assumptions]>>
    ELSE kept

Store(out, report) ==
    /\ artifact' = Aliased(artifact, out.st, report)
    /\ assumptions' = out.st.assumptions
    /\ confidence' = out.st.confidence
    /\ parameters' = out.st.parameters
    /\ call' = [call EXCEPT !.status = "done", !.raised = out.raised]
    /\ sql_result' = IF out.raised # "" THEN sql_result
                     ELSE [query |-> out.text, parameters |-> out.st.parameters,
                           assumptions |-> out.st.assumptions,
                           confidence |-> IF report THEN Frac(95, 100)
                                          ELSE out.st.confidence]

\* "Generate SQL" (app.py 390-399): generate(parsed), and the artifact it
\* returns becomes current_sql; an exception leaves current_sql as it was
Generate ==
    /\ call.status = "parsed"
    /\ call.op = "generate"
    /\ Store(GenerateQuery(call.parsed), FALSE)
    /\ UNCHANGED <<valVars, execVars, fbVars, judgeVars, nlVars, restVars>>

\* "Generate Report" (app.py 331-352) for a recognised report:
\* generate_tally_report_query on the session's generator, then current_sql
\* is assembled from the generator's fields with confidence 0.95
Report ==
    /\ call.status = "parsed"
    /\ call.op = "report"
    /\ Store(GenerateTallyReportQuery(call.report_type, call.parsed, Fields), TRUE)
    /\ UNCHANGED <<valVars, execVars, fbVars, judgeVars, nlVars, restVars>>

\* the parsed query of a report request: the templates read only its identity
ReportQueries ==
    {Parsed("SELECT", <<"mst_ledger">>, <<>>, NoShape, u) : u \in UserFilters}

\* the queries of a session: every action, with and without a table and a
\* condition, under either identity
SessionQueries ==
    { Parsed(a, t, c, NoShape, u) :
        a \in {"SELECT", "INSERT", "UPDATE", "DELETE"},
        t \in {<<>>, <<"mst_ledger">>},
        c \in {<<>>, <<Cond("closing_balance", ">", <<"0">>, "")>>},
        u \in UserFilters }

(* Spec: one session of the application, any sequence of requests on the   *)
(* session's generator.                                                    *)
Init ==
    /\ InitFields
    /\ sql_result = NoResult
    /\ call = NoCall
    /\ InitVal
    /\ InitExec
    /\ InitSide

Next ==
    \/ \E parsed \in SessionQueries : Parse("generate", "", parsed)
    \/ \E report_type \in ReportTypes, parsed \in ReportQueries :
          Parse("report", report_type, parsed)
    \/ Generate
    \/ Report

Spec == Init /\ [][Next]_vars

\* a caller keeps the artifact generate() has just returned: the dict, whose
\* 'parameters' and 'assumptions' are the generator's lists
Keep ==
    /\ artifact = <<>>
    /\ call.status = "done"
    /\ call.op = "generate"
    /\ call.raised = ""
    /\ artifact' = <<[parameters |-> sql_result.parameters,
                      assumptions |-> sql_result.assumptions,
                      returned |-> [parameters |-> sql_result.parameters,
                                    assumptions |-> sql_result.assumptions],
                      shared |-> TRUE]>>
    /\ UNCHANGED <<mainVars, fbVars, judgeVars, nlVars, restVars>>

(* SpecArtifact: a session in which a caller keeps one artifact.           *)
NextArtifact == Next \/ Keep

SpecArtifact == Init /\ [][NextArtifact]_vars

(* SpecGen: one call on a new generator, for every ParsedQuery and every   *)
(* report.                                                                 *)
InitGen ==
    /\ InitFields
    /\ sql_result = NoResult
    /\ call \in {Request("generate", "", parsed) : parsed \in ParsedQueries}
            \cup {Request("report", r, parsed) : r \in ReportTypes, parsed \in ReportQueries}
    /\ InitVal
    /\ InitExec
    /\ InitSide

NextGen == Generate \/ Report

SpecGen == InitGen /\ [][NextGen]_vars

----------------------------------------------------------------------------
(* Properties of the generator *)

\* a call of generate() has returned an artifact
Generated ==
    call.status = "done" /\ call.op = "generate" /\ call.raised = ""

\* a report has been produced
Reported ==
    call.status = "done" /\ call.op = "report" /\ call.raised = ""

\* the positions of the placeholders of a text, left to right
PlaceholderAt(text, k) ==
    CHOOSE i \in DOMAIN text :
        text[i] = "?" /\ Cardinality({j \in 1..i : text[j] = "?"}) = k

\* the parameter a positional binding gives the placeholder at position i:
\* <<value>>, or <<>> when the list is too short
BoundAt(text, params, i) ==
    LET k == Cardinality({j \in 1..i : text[j] = "?"})
    IN  IF k <= Len(params) THEN <<params[k]>> ELSE <<>>

\* the positions where the WHERE clause has the predicate `column = ?`
PredicateAt(text, column) ==
    {i \in DOMAIN text :
        /\ i >= 3
        /\ text[i] = "?" /\ text[i - 1] = " = " /\ text[i - 2] = column
        /\ \E w \in 1..i : text[w] = "WHERE "}

\* C1: in every SQL text the generator produces - generate() for any action
\* and conditions, and each report template on a generator whose parameter
\* list starts empty - the number of '?' placeholders equals the length of
\* the parameter list returned with it.
C1_ParameterCount ==
    (Generated \/ Reported) =>
        Placeholders(sql_result.query) = Len(sql_result.parameters)

\* C2: the SQL generate() returns for a SELECT, UPDATE or DELETE, whatever
\* the tables and conditions, has a WHERE clause with `user_id = ?` and
\* `company_name = ?`, and the parameters bound to these two placeholders are
\* the user_id and the company_name of parsed.user_filters.
C2_TenantIsolation ==
    (Generated /\ call.parsed.action \in {"SELECT", "UPDATE", "DELETE"}) =>
        /\ \E i \in PredicateAt(sql_result.query, "user_id") :
              BoundAt(sql_result.query, sql_result.parameters, i)
                  = <<call.parsed.user_filters.user_id>>
        /\ \E i \in PredicateAt(sql_result.query, "company_name") :
              BoundAt(sql_result.query, sql_result.parameters, i)
                  = <<call.parsed.user_filters.company_name>>

\* the values one condition contributes, as the statement's loop binds them
ValuesOf(action, condition) ==
    IF action \in {"UPDATE", "DELETE"}
    THEN MutationStep(Acc(<<>>, FreshFields), condition).st.parameters
    ELSE WhereStep(Acc(<<>>, FreshFields), condition).st.parameters

RECURSIVE FilterValues(_, _)
FilterValues(action, conds) ==
    IF conds = <<>> THEN <<>>
    ELSE ValuesOf(action, Head(conds)) \o FilterValues(action, Tail(conds))

\* C3: in every statement generate() returns for a SELECT, UPDATE or DELETE
\* the k-th parameter is the value for the k-th '?' of the text: every
\* placeholder has its parameter, the first two placeholders are those of the
\* tenant predicates and carry the identity, and the others carry the
\* filters' values in the order of parsed.conditions.
C3_ParameterOrder ==
    (Generated /\ call.parsed.action \in {"SELECT", "UPDATE", "DELETE"}
               /\ call.parsed.tables # <<>>) =>
        LET q == sql_result.query
            ps == sql_result.parameters
        IN  /\ Placeholders(q) = Len(ps)
            /\ Len(ps) >= 2
            /\ PlaceholderAt(q, 1) \in PredicateAt(q, "user_id")
            /\ PlaceholderAt(q, 2) \in PredicateAt(q, "company_name")
            /\ ps[1] = call.parsed.user_filters.user_id
            /\ ps[2] = call.parsed.user_filters.company_name
            /\ SubSeq(ps, 3, Len(ps))
                   = FilterValues(call.parsed.action, call.parsed.conditions)

\* C4: after any earlier calls on the same generator, a report leaves
\* generator.parameters beginning with the user_id and the company_name of
\* the current parsed.user_filters.
C4_ReportTenantFirst ==
    Reported =>
        /\ Len(parameters) >= 2
        /\ parameters[1] = call.parsed.user_filters.user_id
        /\ parameters[2] = call.parsed.user_filters.company_name

----------------------------------------------------------------------------
(* QueryExecutor: the validator.  Here a string is its characters.         *)

LowerLetters ==
    <<"a", "b", "c", "d", "e", "f", "g", "h", "i", "j", "k", "l", "m", "n",
      "o", "p", "q", "r", "s", "t", "u", "v", "w", "x", "y", "z">>
UpperLetters ==
    <<"A", "B", "C", "D", "E", "F", "G", "H", "I", "J", "K", "L", "M", "N",
      "O", "P", "Q", "R", "S", "T", "U", "V", "W", "X", "Y", "Z">>

\* c.upper() and c.lower() of one ASCII character
UpperChar(c) ==
    IF \E i \in DOMAIN LowerLetters : LowerLetters[i] = c
    THEN UpperLetters[CHOOSE i \in DOMAIN LowerLetters : LowerLetters[i] = c]
    ELSE c
LowerChar(c) ==
    IF \E i \in DOMAIN UpperLetters : UpperLetters[i] = c
    THEN LowerLetters[CHOOSE i \in DOMAIN UpperLetters : UpperLetters[i] = c]
    ELSE c

\* a comparison that keeps the letter case of the query
UpperOff(s) == s

\* sql_query.upper()
Upper(s) == [i \in DOMAIN s |-> UpperChar(s[i])]

\* sub in s
HasSub(s, sub) ==
    \E i \in 1..(Len(s) - Len(sub) + 1) : SubSeq(s, i, i + Len(sub) - 1) = sub

\* s.count(c) for one character
CountChar(s, c) == Cardinality({i \in DOMAIN s : s[i] = c})

\* s.count('\\' + c): a backslash followed by c
CountEscaped(s, c) ==
    Cardinality({i \in 1..(Len(s) - 1) : s[i] = "\\" /\ s[i + 1] = c})

\* QueryExecutor.__init__: self.dangerous_keywords
dangerous_keywords ==
    << <<"D", "R", "O", "P">>,
       <<"T", "R", "U", "N", "C", "A", "T", "E">>,
       <<"E", "X", "E", "C">>,
       <<"E", "X", "E", "C", "U", "T", "E">>,
       <<"S", "C", "R", "I", "P", "T">>,
       <<"S", "H", "U", "T", "D", "O", "W", "N">>,
       <<"G", "R", "A", "N", "T">>,
       <<"R", "E", "V", "O", "K", "E">> >>

\* re.sub of a quoted run by the two quotes: q[^q]*q -> qq, left to right
RECURSIVE RemoveQuoted(_, _)
RemoveQuoted(s, q) ==
    IF ~(\E i \in DOMAIN s : s[i] = q) THEN s
    ELSE LET i == CHOOSE k \in DOMAIN s : s[k] = q /\ \A j \in 1..(k - 1) : s[j] # q
             closes == {k \in (i + 1)..Len(s) : s[k] = q}
         IN  IF closes = {} THEN s
             ELSE LET j == CHOOSE k \in closes : \A m \in closes : k <= m
                  IN  SubSeq(s, 1, i - 1) \o <<q, q>>
                      \o RemoveQuoted(SubSeq(s, j + 1, Len(s)), q)

\* QueryExecutor._remove_string_literals
RemoveStringLiterals(sql_query) ==
    RemoveQuoted(RemoveQuoted(sql_query, "'"), "\"")

\* QueryExecutor._has_multiple_statements
HasMultipleStatements(sql_query) ==
    \E i \in DOMAIN RemoveStringLiterals(sql_query) :
        RemoveStringLiterals(sql_query)[i] = ";"

\* QueryExecutor._balanced_quotes
BalancedQuotes(sql_query) ==
    LET single_quotes == CountChar(sql_query, "'") - CountEscaped(sql_query, "'")
        double_quotes == CountChar(sql_query, "\"") - CountEscaped(sql_query, "\"")
    IN  single_quotes % 2 = 0 /\ double_quotes % 2 = 0

Unsafe(reason) == [safe |-> FALSE, reason |-> reason]

\* _validate_query without its comment rule
ValidateWithoutComments(sql_query) ==
    LET query_upper == Upper(sql_query)
        found == {k \in DOMAIN dangerous_keywords : HasSub(query_upper, dangerous_keywords[k])}
    IN  IF found # {}
        THEN Unsafe(<<"Query contains potentially dangerous keyword: ">>
                    \o dangerous_keywords[CHOOSE k \in found : \A m \in found : k <= m])
        ELSE IF HasMultipleStatements(sql_query)
        THEN Unsafe(<<"Multiple SQL statements detected. Only single statements are allowed.">>)
        ELSE IF ~BalancedQuotes(sql_query)
        THEN Unsafe(<<"Unbalanced quotes detected. Possible SQL injection attempt.">>)
        ELSE [safe |-> TRUE, reason |-> <<>>]

\* a validator that looks for comment markers before it looks for a second
\* statement
ValidateCommentsFirst(sql_query) ==
    LET query_upper == Upper(sql_query)
        found == {k \in DOMAIN dangerous_keywords : HasSub(query_upper, dangerous_keywords[k])}
    IN  IF found # {}
        THEN Unsafe(<<"Query contains potentially dangerous keyword: ">>
                    \o dangerous_keywords[CHOOSE k \in found : \A m \in found : k <= m])
        ELSE IF HasSub(sql_query, <<"-", "-">>) \/ HasSub(sql_query, <<"/", "*">>)
        THEN Unsafe(<<"SQL comments detected. Comments are not allowed for security.">>)
        ELSE IF HasMultipleStatements(sql_query)
        THEN Unsafe(<<"Multiple SQL statements detected. Only single statements are allowed.">>)
        ELSE IF ~BalancedQuotes(sql_query)
        THEN Unsafe(<<"Unbalanced quotes detected. Possible SQL injection attempt.">>)
        ELSE [safe |-> TRUE, reason |-> <<>>]

\* QueryExecutor._validate_query; the reason is a Text, <<>> is None
ValidateQuery(sql_query) ==
    LET query_upper == Upper(sql_query)
        found == {k \in DOMAIN dangerous_keywords : HasSub(query_upper, dangerous_keywords[k])}
    IN  IF found # {}
        THEN Unsafe(<<"Query contains potentially dangerous keyword: ">>
                    \o dangerous_keywords[CHOOSE k \in found : \A m \in found : k <= m])
        ELSE IF HasMultipleStatements(sql_query)
        THEN Unsafe(<<"Multiple SQL statements detected. Only single statements are allowed.">>)
        ELSE IF HasSub(sql_query, <<"-", "-">>) \/ HasSub(sql_query, <<"/", "*">>)
        THEN Unsafe(<<"SQL comments detected. Comments are not allowed for security.">>)
        ELSE IF ~BalancedQuotes(sql_query)
        THEN Unsafe(<<"Unbalanced quotes detected. Possible SQL injection attempt.">>)
        ELSE [safe |-> TRUE, reason |-> <<>>]

----------------------------------------------------------------------------
(* Inputs of the validator: hand-edited SQL, put together from fragments   *)

\* most fragments of one SQL string
MaxFrags == 3

\* Dr
FragDr ==
    <<"D", "r">>
\* oP
FragOp ==
    <<"o", "P">>

Fragments ==
    {
      \* SELECT * FROM users WHERE name = 'a'
      <<"S", "E", "L", "E", "C", "T", " ", "*", " ", "F", "R", "O", "M", " ",
        "u", "s", "e", "r", "s", " ", "W", "H", "E", "R", "E", " ", "n", "a",
        "m", "e", " ", "=", " ", "'", "a", "'">>,
      \*  OR '1'='1'
      <<" ", "O", "R", " ", "'", "1", "'", "=", "'", "1", "'">>,
      \*  UNION SELECT 1
      <<" ", "U", "N", "I", "O", "N", " ", "S", "E", "L", "E", "C", "T", " ",
        "1">>,
      \* ;
      <<";">>,
      \* drop
      <<"d", "r", "o", "p">>,
      FragDr,
      FragOp,
      \* exec
      <<"e", "x", "e", "c">>,
      \* ute
      <<"u", "t", "e">>,
      \* truncate
      <<"t", "r", "u", "n", "c", "a", "t", "e">>,
      \* Script
      <<"S", "c", "r", "i", "p", "t">>,
      \* shutdown
      <<"s", "h", "u", "t", "d", "o", "w", "n">>,
      \* Grant
      <<"G", "r", "a", "n", "t">>,
      \* revoke
      <<"r", "e", "v", "o", "k", "e">>,
      \* --
      <<"-", "-">>,
      \* /*
      <<"/", "*">>,
      \* '
      <<"'">>,
      \* "
      <<"\"">>,
      \* \'
      <<"\\", "'">>,
      \* "'"
      <<"\"", "'", "\"">> }

EditedSQL == {Concat(fs) : fs \in SeqsUpTo(Fragments, MaxFrags)}

(* SpecVal: _validate_query on every string of EditedSQL.                  *)
InitValidator ==
    /\ InitFields
    /\ sql_result = NoResult
    /\ call = NoCall
    /\ val_sql \in EditedSQL
    /\ validation = <<>>
    /\ InitExec
    /\ InitSide

\* one call of _validate_query
Validate ==
    /\ validation = <<>>
    /\ validation' = <<ValidateQuery(val_sql)>>
    /\ UNCHANGED <<genVars, val_sql, execVars, sideVars>>

NextVal == Validate

SpecVal == InitValidator /\ [][NextVal]_vars

----------------------------------------------------------------------------
(* QueryExecutor.execute *)

\* the characters of the pieces the generator's statements are made of
Spell(piece) ==
    CASE
         piece = "SELECT " ->
          <<"S", "E", "L", "E", "C", "T", " ">>
      [] piece = "*" ->
          <<"*">>
      [] piece = "\n" ->
          <<"\n">>
      [] piece = "FROM " ->
          <<"F", "R", "O", "M", " ">>
      [] piece = "unknown_table" ->
          <<"u", "n", "k", "n", "o", "w", "n", "_", "t", "a", "b", "l", "e">>
      [] piece = "mst_ledger" ->
          <<"m", "s", "t", "_", "l", "e", "d", "g", "e", "r">>
      [] piece = "WHERE " ->
          <<"W", "H", "E", "R", "E", " ">>
      [] piece = "user_id" ->
          <<"u", "s", "e", "r", "_", "i", "d">>
      [] piece = " = " ->
          <<" ", "=", " ">>
      [] piece = "?" ->
          <<"?">>
      [] piece = " AND " ->
          <<" ", "A", "N", "D", " ">>
      [] piece = "company_name" ->
          <<"c", "o", "m", "p", "a", "n", "y", "_", "n", "a", "m", "e">>
      [] piece = "closing_balance" ->
          <<"c", "l", "o", "s", "i", "n", "g", "_", "b", "a", "l", "a", "n",
             "c", "e">>
      [] piece = " " ->
          <<" ">>
      [] piece = ">" ->
          <<">">>
      [] piece = "--" ->
          <<"-", "-">>
      [] piece = " Unable to generate INSERT query: no table specified" ->
          <<" ", "U", "n", "a", "b", "l", "e", " ", "t", "o", " ", "g", "e",
             "n", "e", "r", "a", "t", "e", " ", "I", "N", "S", "E", "R", "T",
             " ", "q", "u", "e", "r", "y", ":", " ", "n", "o", " ", "t", "a",
             "b", "l", "e", " ", "s", "p", "e", "c", "i", "f", "i", "e", "d">>
      [] piece = " Unable to generate UPDATE query: no table specified" ->
          <<" ", "U", "n", "a", "b", "l", "e", " ", "t", "o", " ", "g", "e",
             "n", "e", "r", "a", "t", "e", " ", "U", "P", "D", "A", "T", "E",
             " ", "q", "u", "e", "r", "y", ":", " ", "n", "o", " ", "t", "a",
             "b", "l", "e", " ", "s", "p", "e", "c", "i", "f", "i", "e", "d">>
      [] piece = " Unable to generate DELETE query: no table specified" ->
          <<" ", "U", "n", "a", "b", "l", "e", " ", "t", "o", " ", "g", "e",
             "n", "e", "r", "a", "t", "e", " ", "D", "E", "L", "E", "T", "E",
             " ", "q", "u", "e", "r", "y", ":", " ", "n", "o", " ", "t", "a",
             "b", "l", "e", " ", "s", "p", "e", "c", "i", "f", "i", "e", "d">>
      [] piece = "INSERT INTO " ->
          <<"I", "N", "S", "E", "R", "T", " ", "I", "N", "T", "O", " ">>
      [] piece = " (" ->
          <<" ", "(">>
      [] piece = ", " ->
          <<",", " ">>
      [] piece = "name" ->
          <<"n", "a", "m", "e">>
      [] piece = ") VALUES (" ->
          <<")", " ", "V", "A", "L", "U", "E", "S", " ", "(">>
      [] piece = ")" ->
          <<")">>
      [] piece = "UPDATE " ->
          <<"U", "P", "D", "A", "T", "E", " ">>
      [] piece = "SET column_name = " ->
          <<"S", "E", "T", " ", "c", "o", "l", "u", "m", "n", "_", "n", "a",
             "m", "e", " ", "=", " ">>
      [] piece = "DELETE FROM " ->
          <<"D", "E", "L", "E", "T", "E", " ", "F", "R", "O", "M", " ">>

\* the characters of a Text
RECURSIVE Render(_)
Render(text) ==
    IF text = <<>> THEN <<>> ELSE Spell(Head(text)) \o Render(Tail(text))

\* sql_query.strip(): blanks and newlines off both ends
RECURSIVE StripChars(_)
StripChars(s) ==
    IF s = <<>> THEN s
    ELSE IF Head(s) \in {" ", "\n"} THEN StripChars(Tail(s))
    ELSE IF s[Len(s)] \in {" ", "\n"} THEN StripChars(SubSeq(s, 1, Len(s) - 1))
    ELSE s

\* sql_query.strip().upper().startswith('SELECT')
StartsWithSelect(sql_query) ==
    LET s == Upper(StripChars(sql_query))
    IN  Len(s) >= 6 /\ SubSeq(s, 1, 6) = <<"S", "E", "L", "E", "C", "T">>

\* QueryExecutor._extract_parameters
ExtractParameters(sql_query) == <<>>

\* the parameters execute() takes besides self (line 13): sql_query, connection
ExecuteArity == 2

\* an operation a call performs on the connection or on its cursor
Op(name, bound) == [op |-> name, bound |-> bound]

\* what execute() hands back: a result dict, or the exception that leaves it
Result(success, error, data) ==
    [raised |-> "", success |-> success, error |-> error, data |-> data]
Escaped(exc) == [raised |-> exc, success |-> FALSE, error |-> <<>>, data |-> "None"]
Done(ops, result) == [ops |-> ops, result |-> result]

\* what the database does during one call: the operation that fails, if any,
\* with a sqlite3.Error or with another exception, and whether a rollback fails
Faults ==
    [at : {"none", "cursor", "execute", "fetchall", "commit"},
     kind : {"sqlite3.Error", "Exception"},
     rollback_fails : BOOLEAN]

\* sqlite3 refuses a statement whose placeholders are not all bound: no SQL
\* of the model has a '?' inside a literal
BindingMismatch(sql_query, params) == CountChar(sql_query, "?") # Len(params)

\* the finally clause (line 94): cursor.close(), on a name that is unbound
\* when connection.cursor() raised
Finally(ops, outcome, cursor_bound) ==
    IF cursor_bound THEN Done(Append(ops, Op("close", <<>>)), outcome)
    ELSE Done(ops, Escaped("UnboundLocalError"))

\* the except clauses (lines 77-92)
Handle(ops, kind, message, fault, cursor_bound) ==
    IF kind = "sqlite3.Error"
    THEN LET ops1 == Append(ops, Op("rollback", <<>>))
         IN  IF fault.rollback_fails
             THEN Finally(ops1, Escaped("sqlite3.Error"), cursor_bound)
             ELSE Finally(ops1, Result(FALSE, <<"Database error: ", message>>, "None"),
                          cursor_bound)
    ELSE Finally(ops, Result(FALSE, <<"Unexpected error: ", message>>, "None"),
                 cursor_bound)

\* the try block (lines 35-75)
TryBlock(sql_query, fault) ==
    LET params == ExtractParameters(sql_query)
        ops1 == <<Op("cursor", <<>>)>>
        ops2 == Append(ops1, Op("execute", params))
    IN  IF fault.at = "cursor"
        THEN Handle(ops1, fault.kind, "cursor failed", fault, FALSE)
        ELSE IF BindingMismatch(sql_query, params)
        THEN Handle(ops2, "sqlite3.Error", "Incorrect number of bindings supplied",
                    fault, TRUE)
        ELSE IF fault.at = "execute"
        THEN Handle(ops2, fault.kind, "execute failed", fault, TRUE)
        ELSE IF StartsWithSelect(sql_query)
        THEN LET ops3 == Append(ops2, Op("fetchall", <<>>))
             IN  IF fault.at = "fetchall"
                 THEN Handle(ops3, fault.kind, "fetchall failed", fault, TRUE)
                 ELSE Finally(ops3, Result(TRUE, <<>>, "rows"), TRUE)
        ELSE LET ops3 == Append(ops2, Op("commit", <<>>))
             IN  IF fault.at = "commit"
                 THEN Handle(ops3, fault.kind, "commit failed", fault, TRUE)
                 ELSE Finally(ops3, Result(TRUE, <<>>, "None"), TRUE)

\* an execute() that goes to the connection without validating
ExecuteUnvalidated(sql_query, connection, fault) ==
    IF connection = "None"
    THEN Done(<<>>, Result(FALSE, <<"No database connection available">>, "None"))
    ELSE TryBlock(sql_query, fault)

\* an execute() that goes on to the try block without a connection
ExecuteUnconnected(sql_query, connection, fault) ==
    IF ~ValidateQuery(sql_query).safe
    THEN Done(<<>>, Result(FALSE, ValidateQuery(sql_query).reason, "None"))
    ELSE TryBlock(sql_query, fault)

\* QueryExecutor.execute(sql_query, connection)
ExecuteQuery(sql_query, connection, fault) ==
    LET v == ValidateQuery(sql_query)
    IN  IF ~v.safe THEN Done(<<>>, Result(FALSE, v.reason, "None"))
        ELSE IF connection = "None"
        THEN Done(<<>>, Result(FALSE, <<"No database connection available">>, "None"))
        ELSE TryBlock(sql_query, fault)

----------------------------------------------------------------------------
(* The executor in the application *)

HandEditedSQL ==
    {
      \* SELECT * FROM mst_ledger
      <<"S", "E", "L", "E", "C", "T", " ", "*", " ", "F", "R", "O", "M",
        " ", "m", "s", "t", "_", "l", "e", "d", "g", "e", "r">>,
      \* SELECT * FROM mst_ledger WHERE user_id = ?
      <<"S", "E", "L", "E", "C", "T", " ", "*", " ", "F", "R", "O", "M",
        " ", "m", "s", "t", "_", "l", "e", "d", "g", "e", "r", " ", "W",
        "H", "E", "R", "E", " ", "u", "s", "e", "r", "_", "i", "d", " ",
        "=", " ", "?">>,
      \* UPDATE mst_ledger SET closing_balance = 0
      <<"U", "P", "D", "A", "T", "E", " ", "m", "s", "t", "_", "l", "e",
        "d", "g", "e", "r", " ", "S", "E", "T", " ", "c", "l", "o", "s",
        "i", "n", "g", "_", "b", "a", "l", "a", "n", "c", "e", " ", "=",
        " ", "0">>,
      \* drop table mst_ledger
      <<"d", "r", "o", "p", " ", "t", "a", "b", "l", "e", " ", "m", "s",
        "t", "_", "l", "e", "d", "g", "e", "r">>,
      \* SELECT 1; SELECT 2
      <<"S", "E", "L", "E", "C", "T", " ", "1", ";", " ", "S", "E", "L",
        "E", "C", "T", " ", "2">> }

\* the queries of a session with executions
ExecQueries ==
    { Parsed("SELECT", <<"mst_ledger">>, <<>>, NoShape,
             [user_id |-> <<"demo_user">>, company_name |-> <<"Demo Company Ltd">>]),
      Parsed("SELECT", <<"mst_ledger">>, <<Cond("closing_balance", ">", <<"0">>, "")>>,
             NoShape, [user_id |-> <<"u2">>, company_name |-> <<"Acme">>]),
      Parsed("UPDATE", <<"mst_ledger">>, <<>>, NoShape,
             [user_id |-> <<"demo_user">>, company_name |-> <<"Demo Company Ltd">>]),
      Parsed("DELETE", <<>>, <<>>, NoShape,
             [user_id |-> <<"u2">>, company_name |-> <<"Acme">>]),
      Parsed("INSERT", <<>>, <<>>, NoShape,
             [user_id |-> <<"demo_user">>, company_name |-> <<"Demo Company Ltd">>]),
      Parsed("UPDATE", <<>>, <<Cond("closing_balance", ">", <<"0">>, "")>>, NoShape,
             [user_id |-> <<"u2">>, company_name |-> <<"Acme">>]) }

ExecCall(via, sql_query, connection, params, args, status) ==
    [via |-> via, sql_query |-> sql_query, connection |-> connection,
     parameters |-> params, args |-> args, status |-> status]
NoExec == ExecCall("none", <<>>, "None", <<>>, 0, "done")

\* what the SQL text area can hold: the current statement as generated, or
\* a statement typed by hand
TextArea ==
    HandEditedSQL \cup (IF sql_result = NoResult THEN {} ELSE {Render(sql_result.query)})

\* "Execute Query" up to the call (app.py 496-529): edited_sql and parameters
\* are read, the connection is fetched, and execute is called with the three
\* of them unless there is no connection
ClickExecute(edited_sql, connection) ==
    /\ call.status = "done"
    /\ exec_call.status = "done"
    /\ sql_result # NoResult
    /\ exec_call' = ExecCall("app", edited_sql, connection, sql_result.parameters, 3,
                             IF connection = "None" THEN "done" ELSE "called")
    /\ conn_ops' = <<>>
    /\ exec_result' = <<>>
    /\ UNCHANGED <<genVars, valVars, sideVars>>

\* another caller calls execute(sql_query, connection) as it is declared
CallExecute(sql_query, connection) ==
    /\ call.status = "done"
    /\ exec_call.status = "done"
    /\ exec_call' = ExecCall("direct", sql_query, connection, <<>>, 2, "called")
    /\ conn_ops' = <<>>
    /\ exec_result' = <<>>
    /\ UNCHANGED <<genVars, valVars, sideVars>>

\* the call binds its arguments: more than execute() declares is a TypeError
\* before its first line (caught at app.py 666)
RejectCall ==
    /\ exec_call.status = "called"
    /\ exec_call.args # ExecuteArity
    /\ exec_call' = [exec_call EXCEPT !.status = "done"]
    /\ conn_ops' = <<>>
    /\ exec_result' = <<Escaped("TypeError")>>
    /\ UNCHANGED <<genVars, valVars, sideVars>>

\* QueryExecutor.execute runs, the database behaving as `fault` says
Execute(fault) ==
    /\ exec_call.status = "called"
    /\ exec_call.args = ExecuteArity
    /\ LET out == ExecuteQuery(exec_call.sql_query, exec_call.connection, fault)
       IN  /\ conn_ops' = out.ops
           /\ exec_result' = <<out.result>>
           /\ val_sql' = exec_call.sql_query
           /\ validation' = <<ValidateQuery(exec_call.sql_query)>>
    /\ exec_call' = [exec_call EXCEPT !.status = "done"]
    /\ UNCHANGED <<genVars, sideVars>>

(* SpecExec: a session that generates statements and executes them.        *)
InitExecutor ==
    /\ InitFields
    /\ sql_result = NoResult
    /\ call = NoCall
    /\ InitVal
    /\ InitExec
    /\ InitSide

ParseExec(parsed) ==
    /\ exec_call.status = "done"
    /\ Parse("generate", "", parsed)

NextExec ==
    \/ \E parsed \in ExecQueries : ParseExec(parsed)
    \/ Generate
    \/ \E sql \in TextArea, connection \in {"None", "conn"} : ClickExecute(sql, connection)
    \/ \E sql \in TextArea, connection \in {"None", "conn"} : CallExecute(sql, connection)
    \/ RejectCall
    \/ \E fault \in Faults : Execute(fault)

SpecExec == InitExecutor /\ [][NextExec]_vars

----------------------------------------------------------------------------
(* Properties of the validator *)

Validated == validation # <<>>

LowerOf(s) == [i \in DOMAIN s |-> LowerChar(s[i])]

\* s contains the word in some mix of upper and lower case
HasWordAnyCase(s, word) == HasSub(LowerOf(s), LowerOf(word))

HasKeywordAnyCase(s) ==
    \E k \in DOMAIN dangerous_keywords : HasWordAnyCase(s, dangerous_keywords[k])

\* C5: _validate_query returns safe=False for every SQL string that contains
\* a denylisted keyword, in any letter case and with any characters around it.
C5_KeywordRejected ==
    (Validated /\ HasKeywordAnyCase(val_sql)) => ~validation[1].safe

\* a keyword in mixed case, put together from two fragments, is rejected
C5_Witness ==
    /\ Validated
    /\ HasSub(val_sql, FragDr \o FragOp)
    /\ ~HasSub(val_sql, dangerous_keywords[1])
    /\ ~validation[1].safe

\* the quote characters of s that no backslash precedes
Unescaped(s, q) ==
    Cardinality({i \in DOMAIN s : s[i] = q /\ (i = 1 \/ s[i - 1] # "\\")})

\* reading s left to right as SQL does, a quote opens a literal that the next
\* quote of the same kind closes: is some semicolon outside every literal?
RECURSIVE SemicolonOutside(_, _, _)
SemicolonOutside(s, i, open) ==
    IF i > Len(s) THEN FALSE
    ELSE IF open = ""
    THEN IF s[i] = ";" THEN TRUE
         ELSE IF s[i] \in {"'", "\""} THEN SemicolonOutside(s, i + 1, s[i])
         ELSE SemicolonOutside(s, i + 1, "")
    ELSE IF s[i] = open THEN SemicolonOutside(s, i + 1, "")
    ELSE SemicolonOutside(s, i + 1, open)

\* C6: a SQL string that passes validation contains no denylisted keyword in
\* any case, no `--` or `/*`, no semicolon outside a quoted literal, and an
\* even number of unescaped single quotes and of unescaped double quotes.
C6_SafeIsClean ==
    (Validated /\ validation[1].safe) =>
        /\ ~HasKeywordAnyCase(val_sql)
        /\ ~HasSub(val_sql, <<"-", "-">>)
        /\ ~HasSub(val_sql, <<"/", "*">>)
        /\ ~SemicolonOutside(val_sql, 1, "")
        /\ Unescaped(val_sql, "'") % 2 = 0
        /\ Unescaped(val_sql, "\"") % 2 = 0

\* C7: _validate_query rejects SQL that contains UNION SELECT or an
\* always-true tautology such as 1=1 or '1'='1', even when nothing else is
\* wrong with it.
C7_SuspiciousRejected ==
    (Validated /\ (\/ HasWordAnyCase(val_sql, <<"U", "N", "I", "O", "N", " ", "S", "E", "L", "E", "C", "T">>)
                   \/ HasSub(val_sql, <<"1", "=", "1">>)
                   \/ HasSub(val_sql, <<"'", "1", "'", "=", "'", "1", "'">>)))
        => ~validation[1].safe

\* strings that break several rules at once, put together from fragments
RuleFragments ==
    {
      \* SELECT 1
      <<"S", "E", "L", "E", "C", "T", " ", "1">>,
      \* ;
      <<";">>,
      \* ';'
      <<"'", ";", "'">>,
      \* --
      <<"-", "-">>,
      \* /*
      <<"/", "*">>,
      \* '
      <<"'">>,
      \* "
      <<"\"">>,
      \* \'
      <<"\\", "'">>,
      \*  Drop
      <<" ", "D", "r", "o", "p">>,
      \*  execute
      <<" ", "e", "x", "e", "c", "u", "t", "e">> }

RuleSQL == {Concat(fs) : fs \in SeqsUpTo(RuleFragments, MaxFrags)}

(* SpecRules: _validate_query on every string of RuleSQL.                  *)
InitRules ==
    /\ InitFields
    /\ sql_result = NoResult
    /\ call = NoCall
    /\ val_sql \in RuleSQL
    /\ validation = <<>>
    /\ InitExec
    /\ InitSide

SpecRules == InitRules /\ [][NextVal]_vars

\* the rules of the validator in the order of the specification: which of
\* them a string breaks
RuleBroken(s, rule) ==
    CASE rule = 1 -> HasKeywordAnyCase(s)
      [] rule = 2 -> HasSub(RemoveStringLiterals(s), <<";">>)
      [] rule = 3 -> HasSub(s, <<"-", "-">>) \/ HasSub(s, <<"/", "*">>)
      [] rule = 4 -> (CountChar(s, "'") - CountEscaped(s, "'")) % 2 # 0
                     \/ (CountChar(s, "\"") - CountEscaped(s, "\"")) % 2 # 0

\* the first keyword of the denylist, in its order, that a string contains
FirstKeyword(s) ==
    dangerous_keywords[CHOOSE k \in DOMAIN dangerous_keywords :
        /\ HasWordAnyCase(s, dangerous_keywords[k])
        /\ \A m \in 1..(k - 1) : ~HasWordAnyCase(s, dangerous_keywords[m])]

\* the reason that names a rule
RuleReason(s, rule) ==
    CASE rule = 1 -> <<"Query contains potentially dangerous keyword: ">> \o FirstKeyword(s)
      [] rule = 2 -> <<"Multiple SQL statements detected. Only single statements are allowed.">>
      [] rule = 3 -> <<"SQL comments detected. Comments are not allowed for security.">>
      [] rule = 4 -> <<"Unbalanced quotes detected. Possible SQL injection attempt.">>

\* the first rule a string breaks, 0 when it breaks none
FirstBroken(s) ==
    IF RuleBroken(s, 1) THEN 1
    ELSE IF RuleBroken(s, 2) THEN 2
    ELSE IF RuleBroken(s, 3) THEN 3
    ELSE IF RuleBroken(s, 4) THEN 4
    ELSE 0

\* what the validator is to return when `rule` is the first rule broken
Verdict(s, rule) ==
    IF rule = 0 THEN [safe |-> TRUE, reason |-> <<>>]
    ELSE [safe |-> FALSE, reason |-> RuleReason(s, rule)]

\* C22: _validate_query applies its checks in the order keyword, multiple
\* statements, comment markers, unbalanced quotes, and the reason it returns
\* names the first rule that is broken; a string with a keyword and a
\* semicolon gets the keyword reason, and (amended) a string with a
\* semicolon outside quoted text and a `--` but no keyword gets the
\* multiple-statements reason.
C22_FirstBrokenRule ==
    Validated => validation[1] = Verdict(val_sql, FirstBroken(val_sql))

\* a string with a semicolon outside quoted text and a comment marker, and
\* no keyword, is rejected for its second statement
C22_Witness ==
    /\ Validated
    /\ ~RuleBroken(val_sql, 1)
    /\ RuleBroken(val_sql, 2)
    /\ HasSub(val_sql, <<"-", "-">>)
    /\ validation[1].reason = RuleReason(val_sql, 2)

\* C22 as it is worded: every string that has a semicolon and a `--` but no
\* denylisted keyword is rejected with the multiple-statements reason.
C22_AnySemicolon ==
    (Validated /\ HasSub(val_sql, <<";">>) /\ HasSub(val_sql, <<"-", "-">>)
               /\ ~HasKeywordAnyCase(val_sql)) =>
        validation[1].reason = RuleReason(val_sql, 2)

----------------------------------------------------------------------------
(* Properties of the executor *)

\* a call of execute has come back: with a result dict or with an exception
Executed == exec_call.via # "none" /\ exec_call.status = "done" /\ exec_result # <<>>

\* the body of execute() ran: the call's arguments were accepted
Ran == Executed /\ exec_call.args = ExecuteArity

\* C8: execute validates the SQL on every call before any use of the
\* connection: when _validate_query reports the SQL unsafe, no operation is
\* performed on the connection (no cursor, execute, commit or rollback) and
\* the result is success=False with the validator's reason as error.
C8_UnsafeNeverReachesConnection ==
    Ran =>
        /\ validation = <<ValidateQuery(exec_call.sql_query)>>
        /\ ~ValidateQuery(exec_call.sql_query).safe =>
               /\ conn_ops = <<>>
               /\ exec_result[1].raised = ""
               /\ exec_result[1].success = FALSE
               /\ exec_result[1].error = ValidateQuery(exec_call.sql_query).reason

\* an unsafe statement was handed to execute together with a live connection
C8_Witness ==
    /\ Ran
    /\ exec_call.connection = "conn"
    /\ ~ValidateQuery(exec_call.sql_query).safe
    /\ exec_result[1].error = ValidateQuery(exec_call.sql_query).reason

\* the statement executed is the generated one, unedited, on a live connection
ExecutedAsGenerated ==
    /\ Executed
    /\ sql_result # NoResult
    /\ exec_call.connection = "conn"
    /\ exec_call.sql_query = Render(sql_result.query)
    /\ ValidateQuery(exec_call.sql_query).safe

\* C9: when the caller executes a generated statement, the gateway accepts
\* the artifact's parameter list together with the SQL and the connection,
\* and the statement is executed with exactly those values bound to its '?'
\* placeholders.
C9_ParametersBound ==
    ExecutedAsGenerated =>
        /\ exec_result[1].raised = ""
        /\ \E i \in DOMAIN conn_ops :
               /\ conn_ops[i].op = "execute"
               /\ conn_ops[i].bound = sql_result.parameters

\* C10: execute never lets an exception reach the caller: whatever fails -
\* executing, fetching, committing, connection.cursor() itself - the call
\* returns a result dict, with success=False and an error string when an
\* operation on the connection failed.
C10_NoExceptionEscapes ==
    Ran =>
        /\ exec_result[1].raised = ""
        /\ (\E i \in DOMAIN conn_ops : conn_ops[i].op = "rollback") =>
               (exec_result[1].success = FALSE /\ exec_result[1].error # <<>>)

\* the operations of the call, by name
OpsNamed(name) == {i \in DOMAIN conn_ops : conn_ops[i].op = name}

\* the call got as far as cursor.execute on a statement that is no SELECT
RanMutation ==
    /\ Ran
    /\ OpsNamed("execute") # {}
    /\ ~StartsWithSelect(exec_call.sql_query)

\* C11: for a mutating statement execute() commits only when the statement
\* executed without error, and on any failure while executing or committing,
\* a sqlite3.Error or any other exception, connection.rollback() is called
\* before the failure result is returned.
C11_RollbackOnEveryFailure ==
    RanMutation =>
        /\ exec_result[1].success => (OpsNamed("commit") # {} /\ OpsNamed("rollback") = {})
        /\ ~exec_result[1].success => OpsNamed("rollback") # {}

\* C12: every call of execute() ends with no cursor left open and with a
\* cleanup that cannot fail: a cursor the call opened is closed on success,
\* on a database error and on an unexpected error, and a call that fails
\* before a cursor exists leaves through the cleanup without an error.
C12_CleanupNeverFails ==
    Ran =>
        /\ exec_result[1].raised # "UnboundLocalError"
        /\ OpsNamed("execute") # {} => conn_ops[Len(conn_ops)].op = "close"

\* C13: when the SQL passes validation and connection is None, execute()
\* returns success=False, error 'No database connection available' and data
\* None, and attempts no query.
C13_NoConnectionNoQuery ==
    (Ran /\ ValidateQuery(exec_call.sql_query).safe /\ exec_call.connection = "None") =>
        /\ exec_result[1] = Result(FALSE, <<"No database connection available">>, "None")
        /\ conn_ops = <<>>

\* a safe statement was handed to execute without a connection
C13_Witness ==
    /\ Ran
    /\ ValidateQuery(exec_call.sql_query).safe
    /\ exec_call.connection = "None"
    /\ exec_result[1].error = <<"No database connection available">>

\* an INSERT, UPDATE or DELETE whose parse resolved no table
NoTableMutation(parsed) ==
    parsed.action \in {"INSERT", "UPDATE", "DELETE"} /\ parsed.tables = <<>>

\* the statement handed to execute is the current generated one, unedited
HandedAsGenerated ==
    /\ exec_call.via # "none"
    /\ sql_result # NoResult
    /\ exec_call.sql_query = Render(sql_result.query)

\* C28: an INSERT, UPDATE or DELETE whose parse resolved no table is never
\* executed: generate() returns for it a text starting with "--" and no
\* parameters, no operation is performed on the connection when that text is
\* handed to execute, and an execute() that runs rejects it with the comment
\* reason.
C28_NoTableNeverExecuted ==
    (Generated /\ NoTableMutation(call.parsed)) =>
        /\ Len(sql_result.query) > 0
        /\ sql_result.query[1] = "--"
        /\ SubSeq(Render(sql_result.query), 1, 2) = <<"-", "-">>
        /\ sql_result.parameters = <<>>
        /\ HandedAsGenerated =>
               /\ conn_ops = <<>>
               /\ Ran => exec_result[1] =
                      Result(FALSE,
                             <<"SQL comments detected. Comments are not allowed for security.">>,
                             "None")

\* the text generated for a mutation without a table was handed to execute
\* together with a live connection and was rejected for its comment
C28_Witness ==
    /\ Generated
    /\ NoTableMutation(call.parsed)
    /\ call.parsed.action = "UPDATE"
    /\ Ran
    /\ HandedAsGenerated
    /\ exec_call.connection = "conn"
    /\ exec_result[1].success = FALSE
    /\ exec_result[1].error =
           <<"SQL comments detected. Comments are not allowed for security.">>

----------------------------------------------------------------------------
\* The feedback store (feedback_manager.py).  Every Streamlit session builds
\* its own FeedbackManager on the same feedback_log.json; no lock is taken
\* anywhere in the class.

\* feedback records added in one run, over all sessions
MaxFeedback == 3

Sessions == {"s1", "s2"}

\* s.lower() and s.upper()
RECURSIVE LowerStr(_)
LowerStr(s) ==
    IF Len(s) = 0 THEN s
    ELSE LowerChar(SubSeq(s, 1, 1)) \o LowerStr(SubSeq(s, 2, Len(s)))
RECURSIVE UpperStr(_)
UpperStr(s) ==
    IF Len(s) = 0 THEN s
    ELSE UpperChar(SubSeq(s, 1, 1)) \o UpperStr(SubSeq(s, 2, Len(s)))

\* what _initialize_feedback_structure returns, as far as the lists go
EmptyLog == [sessions |-> <<>>, llm_evaluations |-> <<>>]

\* json.dump writes the 'sessions' list and then the 'llm_evaluations' list
Dump(data) == data.sessions \o data.llm_evaluations

\* bytes of a truncated file that no writer has filled yet
Hole == [by |-> "", n |-> 0, kind |-> "hole"]

\* f.write at the writer's own file offset: the bytes before it that are
\* missing after another writer's truncation read as a hole
WriteAt(content, offset, record) ==
    [i \in 1..(IF Len(content) > offset THEN Len(content) ELSE offset) |->
        IF i = offset THEN record
        ELSE IF i <= Len(content) THEN content[i] ELSE Hole]

\* json.load of a file that holds one whole document
Loaded(content) ==
    [sessions |-> SelectSeq(content, LAMBDA r : r.kind = "feedback"),
     llm_evaluations |-> SelectSeq(content, LAMBDA r : r.kind = "llm")]

\* records this instance has appended since it was constructed
Own(s) == Len(SelectSeq(Dump(feedback_data[s]), LAMBDA r : r.by = s))

\* FeedbackManager(): _load_feedback reads the file; a file that does not
\* parse is answered with the initial structure by the bare except
Load(s) ==
    /\ fb_at[s].at = "new"
    /\ feedback_data' = [feedback_data EXCEPT ![s] =
            IF feedback_file.whole THEN Loaded(feedback_file.data) ELSE EmptyLog]
    /\ patterns' = [patterns EXCEPT ![s] =
            IF feedback_file.whole THEN feedback_file.patterns ELSE <<>>]
    /\ fb_at' = [fb_at EXCEPT ![s] = [at |-> "idle", written |-> 0,
                                      torn |-> ~feedback_file.whole]]
    /\ UNCHANGED <<feedback_file, persisted, mainVars, judgeVars, nlVars, artifact,
                   hint, resolution, catVars>>

\* stop_words of _extract_key_phrases
StopWords ==
    {"the", "a", "an", "and", "or", "but", "in", "on", "at", "to", "for", "of", "with", "by"}

\* _extract_key_phrases of a query given by the words query.split() finds:
\* the words, in lower case and without the stop words, then their bigrams
ExtractKeyPhrases(query) ==
    LET words == SelectSeq([i \in DOMAIN query |-> LowerStr(query[i])],
                           LAMBDA w : w \notin StopWords)
    IN  words \o [i \in 1..(Len(words) - 1) |-> words[i] \o " " \o words[i + 1]]

\* feedback_data['patterns'] is the list of its entries in insertion order
HasPattern(pats, phrase) == \E i \in DOMAIN pats : pats[i].phrase = phrase

\* a count that is decremented where the code increments it
Decrement(count) == count - 1

\* `+= 1` on a count of a pattern
Increment(count) == count + 1

\* one turn of the loops of _update_positive_pattern (count "success_count")
\* and _update_negative_pattern ("fail_count"), which create the entry of a
\* phrase they do not find, and of _update_correction_pattern, which does not
Count(pats, phrase, count, create) ==
    LET all == IF HasPattern(pats, phrase) \/ ~create THEN pats
               ELSE Append(pats, [phrase |-> phrase, success_count |-> 0, fail_count |-> 0])
    IN  [i \in DOMAIN all |->
            IF all[i].phrase # phrase THEN all[i]
            ELSE IF count = "success_count"
            THEN [all[i] EXCEPT !.success_count = Increment(@)]
            ELSE [all[i] EXCEPT !.fail_count = Increment(@)]]

RECURSIVE CountAll(_, _, _, _)
CountAll(pats, phrases, count, create) ==
    IF phrases = <<>> THEN pats
    ELSE CountAll(Count(pats, Head(phrases), count, create), Tail(phrases), count, create)

\* the pattern updates of add_feedback (lines 62-68); correction is <<>> for
\* None, and an empty correction counts as none
UpdatePatterns(pats, natural_query, feedback_type, correction) ==
    IF feedback_type = "positive"
    THEN CountAll(pats, ExtractKeyPhrases(natural_query), "success_count", TRUE)
    ELSE IF feedback_type = "corrected" /\ correction # <<>> /\ correction # <<"">>
    THEN CountAll(pats, ExtractKeyPhrases(natural_query), "fail_count", FALSE)
    ELSE IF feedback_type = "negative"
    THEN CountAll(pats, ExtractKeyPhrases(natural_query), "fail_count", TRUE)
    ELSE pats

\* add_feedback / add_llm_evaluation up to the call of _save_feedback: the
\* entry is appended to the instance's list, and add_feedback updates the
\* patterns of the query's key phrases (the corrections and the AI
\* correlations it also keeps are left out)
AddEntry(s, kind, natural_query, feedback_type, correction) ==
    /\ fb_at[s].at = "idle"
    /\ Own("s1") + Own("s2") < MaxFeedback
    /\ feedback_data' = [feedback_data EXCEPT ![s] =
            IF kind = "feedback"
            THEN [@ EXCEPT !.sessions = Append(@, [by |-> s, n |-> Own(s) + 1, kind |-> kind])]
            ELSE [@ EXCEPT !.llm_evaluations = Append(@, [by |-> s, n |-> Own(s) + 1, kind |-> kind])]]
    /\ patterns' = [patterns EXCEPT ![s] =
            IF kind = "feedback"
            THEN UpdatePatterns(@, natural_query, feedback_type, correction)
            ELSE @]
    /\ fb_at' = [fb_at EXCEPT ![s] =
            [at |-> kind, written |-> @.written, torn |-> @.torn,
             feedback_type |-> IF kind = "feedback" THEN feedback_type ELSE "",
             correction |-> IF kind = "feedback" THEN correction ELSE <<>>]]
    /\ UNCHANGED <<feedback_file, persisted, mainVars, judgeVars, nlVars, artifact,
                   hint, resolution, catVars>>

\* _save_feedback: open(self.feedback_file, 'w') truncates the file
OpenFile(s) ==
    /\ fb_at[s].at \in {"feedback", "llm"}
    /\ feedback_file' = [data |-> <<>>, whole |-> FALSE, patterns |-> <<>>]
    /\ fb_at' = [fb_at EXCEPT ![s] = [at |-> "open", written |-> 0, torn |-> @.torn,
                                      kind |-> @.at]]
    /\ UNCHANGED <<feedback_data, persisted, mainVars, judgeVars, nlVars, moreVars>>

\* _save_feedback: json.dump hands the document to the file piece by piece
WriteFile(s) ==
    /\ fb_at[s].at = "open"
    /\ fb_at[s].written < Len(Dump(feedback_data[s]))
    /\ feedback_file' = [feedback_file EXCEPT !.data =
            WriteAt(@, fb_at[s].written + 1, Dump(feedback_data[s])[fb_at[s].written + 1])]
    /\ fb_at' = [fb_at EXCEPT ![s].written = @ + 1]
    /\ UNCHANGED <<feedback_data, persisted, mainVars, judgeVars, nlVars, moreVars>>

\* _save_feedback: leaving the with block closes the file, and add_feedback
\* or add_llm_evaluation returns; the file parses again when it holds exactly
\* one writer's document
CloseFile(s) ==
    /\ fb_at[s].at = "open"
    /\ fb_at[s].written = Len(Dump(feedback_data[s]))
    /\ feedback_file' = [feedback_file EXCEPT
            !.whole = (feedback_file.data = Dump(feedback_data[s])),
            !.patterns = IF feedback_file.data = Dump(feedback_data[s])
                         THEN patterns[s] ELSE <<>>]
    /\ fb_at' = [fb_at EXCEPT ![s] = [at |-> "idle", written |-> 0, torn |-> @.torn]]
    /\ persisted' = [before |-> persisted.now,
                     added |-> <<[by |-> s, n |-> Own(s), kind |-> fb_at[s].kind]>>,
                     now |-> feedback_file.data]
    /\ UNCHANGED <<feedback_data, mainVars, judgeVars, nlVars, moreVars>>

\* the query of the sessions of the application, which calls add_feedback
\* only with 'positive' and without correction (app.py 609-614)
AppQuery == <<"Show", "ledgers">>

InitFeedbackStore ==
    /\ InitFields
    /\ sql_result = NoResult
    /\ call = NoCall
    /\ InitVal
    /\ InitExec
    /\ InitSide

NextFeedback ==
    \E s \in Sessions :
        \/ Load(s)
        \/ \E kind \in {"feedback", "llm"} : AddEntry(s, kind, AppQuery, "positive", <<>>)
        \/ OpenFile(s)
        \/ WriteFile(s)
        \/ CloseFile(s)

SpecFeedback == InitFeedbackStore /\ [][NextFeedback]_vars

\* C14: writes of the feedback file are serialized: at most one instance is
\* between the truncating open and the close of _save_feedback at any time,
\* and no instance that reads the file finds a document that does not parse.
C14_WritesSerialized ==
    /\ Cardinality({s \in Sessions : fb_at[s].at = "open"}) <= 1
    /\ \A s \in Sessions : ~fb_at[s].torn

\* C15: the persisted log is append-only: after each completed add_feedback
\* the file's 'sessions' list is the previously persisted list followed by
\* the new record.
C15_AppendOnly ==
    (persisted.added # <<>> /\ persisted.added[1].kind = "feedback") =>
        Loaded(persisted.now).sessions = Loaded(persisted.before).sessions \o persisted.added

----------------------------------------------------------------------------
\* The LLM judge (llm_judge.py).

\* judge calls in one run
MaxJudged == 3

\* the execution_result argument: absent (app.py 369 and 405), or the dict
\* QueryExecutor.execute returned (app.py 539): rows of a SELECT, data None
\* of a statement that was committed, or a failure
ExecutionResults ==
    {[given |-> FALSE, success |-> FALSE, data |-> <<>>],
     [given |-> TRUE, success |-> TRUE, data |-> <<0>>],
     [given |-> TRUE, success |-> TRUE, data |-> <<2>>],
     [given |-> TRUE, success |-> TRUE, data |-> <<>>],
     [given |-> TRUE, success |-> FALSE, data |-> <<>>]}

\* what the Groq API does with the request: no answer, an HTTP error status,
\* a body without choices[0].message.content, or a content that is a JSON
\* object (with a score, without one, with a score that is no number), text
\* in braces that is no JSON, or prose with or without a score in it
ApiOutcomes ==
    {[http |-> h, content |-> "", score |-> Frac(0, 1)] :
        h \in {"unreachable", "http_error", "malformed"}}
    \cup {[http |-> "ok", content |-> c, score |-> sc] :
            c \in {"json", "prose_score"}, sc \in {Frac(1, 2), Frac(7, 10), Frac(9, 10)}}
    \cup {[http |-> "ok", content |-> c, score |-> Frac(0, 1)] :
            c \in {"json_no_score", "json_bad_score", "not_json", "prose"}}

\* _prepare_judgment_context: the len() of the data of a successful result;
\* the name of the exception it raises, or ""
PrepareJudgmentContext(execution_result) ==
    IF execution_result.given /\ execution_result.success /\ execution_result.data = <<>>
    THEN "TypeError" ELSE ""

\* _call_groq_api: the exception of requests.post, raise_for_status or the
\* subscripts of the body, or ""
CallGroqApi(api) ==
    CASE api.http = "unreachable" -> "ConnectionError"
      [] api.http = "http_error" -> "HTTPError"
      [] api.http = "malformed" -> "KeyError"
      [] OTHER -> ""

\* _parse_judgment_response with _fallback_parse_response: its own except
\* clause answers a content that does not load or a score that is no number
ParseJudgmentResponse(api) ==
    CASE api.content \in {"json", "prose_score"} ->
            [success |-> TRUE, score |-> api.score, error |-> ""]
      [] api.content \in {"json_no_score", "prose"} ->
            [success |-> TRUE, score |-> Frac(1, 2), error |-> ""]
      [] OTHER ->
            [success |-> FALSE, score |-> Frac(1, 2), error |-> "Failed to parse LLM response"]

\* _store_evaluation: one more evaluation, and one more approved query for a
\* score above 0.7
StoreEvaluation(data, judgment) ==
    [evaluations |-> data.evaluations + 1,
     total_queries |-> data.total_queries + 1,
     llm_approved_queries |-> data.llm_approved_queries
        + (IF judgment.score.n * 10 > 7 * judgment.score.d THEN 1 ELSE 0)]

\* judge_query_quality: the context is prepared before the try block; the
\* API call, the parsing and the storing are inside it
JudgeQueryQuality(execution_result, api) ==
    /\ learning_data.total_queries < MaxJudged
    /\ judge_call' = <<[execution_result |-> execution_result, api |-> api]>>
    /\ IF PrepareJudgmentContext(execution_result) # ""
       THEN /\ judge_result' = <<[raised |-> PrepareJudgmentContext(execution_result),
                                  returned |-> <<>>]>>
            /\ UNCHANGED learning_data
       ELSE IF CallGroqApi(api) # ""
       THEN /\ judge_result' = <<[raised |-> "",
                                  returned |-> <<[success |-> FALSE, score |-> Frac(1, 2),
                                                  error |-> "LLM judgment failed"]>>]>>
            /\ UNCHANGED learning_data
       ELSE /\ judge_result' = <<[raised |-> "", returned |-> <<ParseJudgmentResponse(api)>>]>>
            /\ learning_data' = StoreEvaluation(learning_data, ParseJudgmentResponse(api))
    /\ UNCHANGED <<mainVars, fbVars, nlVars, moreVars>>

NextJudge ==
    \E execution_result \in ExecutionResults, api \in ApiOutcomes :
        JudgeQueryQuality(execution_result, api)

SpecJudge == InitFeedbackStore /\ [][NextJudge]_vars

\* C16: judge_query_quality never raises to its caller: when the API is
\* unreachable, answers with an HTTP error or a malformed body, or when the
\* execution_result is that of a successful statement whose data is None,
\* the call returns a dict with success False.
C16_JudgeNeverRaises ==
    judge_result # <<>> =>
        /\ judge_result[1].raised = ""
        /\ (\/ judge_call[1].api.http # "ok"
            \/ PrepareJudgmentContext(judge_call[1].execution_result) # "")
           => (judge_result[1].returned # <<>> /\ ~judge_result[1].returned[1].success)

----------------------------------------------------------------------------
(* Properties of the generator's use of the schema *)

\* a condition of the ParsedQuery names date_of_release or date, which are
\* columns of neither mst_ledger nor config in load_tally_schema
\* (schema_manager.py 44-55 and 74-115)
UnknownColumn(parsed) ==
    /\ parsed.tables \in {<<"mst_ledger">>, <<"mst_ledger", "config">>}
    /\ \E i \in DOMAIN parsed.conditions :
          parsed.conditions[i].field \in {"date_of_release", "date"}

\* C17: when the ParsedQuery handed to generate() references a column that
\* no table of parsed.tables has in the schema, the artifact reports a
\* validation failure: its confidence is 0 and it carries an explanatory
\* message.
C17_UnknownColumnRejected ==
    (Generated /\ UnknownColumn(call.parsed)) =>
        /\ sql_result.confidence.n = 0
        /\ sql_result.assumptions # <<>>

----------------------------------------------------------------------------
\* The parser of the application (query_parser.py).  Python strings are TLA+
\* strings here; a query is made of lower- and upper-case letters, '_' and
\* single blanks.

\* self.schema as load_tally_schema builds it: the tables in the order of the
\* dict, each with its relationships and its columns (name, declared type)
TallySchema ==
    <<
      [name |-> "config",
       relationships |->
          <<>>,
       columns |->
          <<<<"name", "VARCHAR(64) PRIMARY KEY">>,
            <<"value", "VARCHAR(1024)">>, <<"user_id", "VARCHAR(255)">>,
            <<"company_name", "VARCHAR(255)">>>>],
      [name |-> "mst_group",
       relationships |->
          <<"mst_ledger.parent = mst_group.name">>,
       columns |->
          <<<<"guid", "VARCHAR(64) PRIMARY KEY">>,
            <<"name", "VARCHAR(1024)">>, <<"parent", "VARCHAR(1024)">>,
            <<"primary_group", "VARCHAR(1024)">>,
            <<"is_revenue", "SMALLINT">>,
            <<"is_deemedpositive", "SMALLINT">>,
            <<"is_reserved", "SMALLINT">>,
            <<"affects_gross_profit", "SMALLINT">>,
            <<"sort_position", "INTEGER">>, <<"user_id", "VARCHAR(255)">>,
            <<"company_name", "VARCHAR(255)">>>>],
      [name |-> "mst_ledger",
       relationships |->
          <<"trn_accounting.ledger = mst_ledger.name",
            "trn_cost_centre.ledger = mst_ledger.name",
            "trn_bill.ledger = mst_ledger.name">>,
       columns |->
          <<<<"guid", "VARCHAR(64) PRIMARY KEY">>,
            <<"name", "VARCHAR(1024)">>, <<"parent", "VARCHAR(1024)">>,
            <<"alias", "VARCHAR(256)">>, <<"description", "VARCHAR(64)">>,
            <<"notes", "VARCHAR(64)">>, <<"is_revenue", "SMALLINT">>,
            <<"is_deemedpositive", "SMALLINT">>,
            <<"opening_balance", "NUMERIC DEFAULT 0">>,
            <<"closing_balance", "NUMERIC DEFAULT 0">>,
            <<"mailing_name", "VARCHAR(256)">>,
            <<"mailing_address", "VARCHAR(1024)">>,
            <<"mailing_state", "VARCHAR(256)">>,
            <<"mailing_country", "VARCHAR(256)">>,
            <<"mailing_pincode", "VARCHAR(64)">>,
            <<"email", "VARCHAR(256)">>, <<"it_pan", "VARCHAR(64)">>,
            <<"gstn", "VARCHAR(64)">>,
            <<"gst_registration_type", "VARCHAR(64)">>,
            <<"gst_supply_type", "VARCHAR(64)">>,
            <<"gst_duty_head", "VARCHAR(16)">>,
            <<"tax_rate", "NUMERIC DEFAULT 0">>,
            <<"bank_account_holder", "VARCHAR(256)">>,
            <<"bank_account_number", "VARCHAR(64)">>,
            <<"bank_ifsc", "VARCHAR(64)">>, <<"bank_swift", "VARCHAR(64)">>,
            <<"bank_name", "VARCHAR(64)">>, <<"bank_branch", "VARCHAR(64)">>,
            <<"bill_credit_period", "INTEGER DEFAULT 0">>,
            <<"user_id", "VARCHAR(255)">>,
            <<"company_name", "VARCHAR(255)">>>>],
      [name |-> "mst_vouchertype",
       relationships |->
          <<"trn_voucher.voucher_type = mst_vouchertype.name">>,
       columns |->
          <<<<"guid", "VARCHAR(64) PRIMARY KEY">>,
            <<"name", "VARCHAR(1024)">>, <<"parent", "VARCHAR(1024)">>,
            <<"numbering_method", "VARCHAR(64)">>,
            <<"is_deemedpositive", "SMALLINT">>,
            <<"affects_stock", "SMALLINT">>, <<"user_id", "VARCHAR(255)">>,
            <<"company_name", "VARCHAR(255)">>>>],
      [name |-> "mst_stock_item",
       relationships |->
          <<"trn_inventory.item = mst_stock_item.name",
            "trn_batch.item = mst_stock_item.name">>,
       columns |->
          <<<<"guid", "VARCHAR(64) PRIMARY KEY">>,
            <<"name", "VARCHAR(1024)">>, <<"parent", "VARCHAR(1024)">>,
            <<"alias", "VARCHAR(256)">>, <<"description", "VARCHAR(64)">>,
            <<"notes", "VARCHAR(64)">>, <<"part_number", "VARCHAR(256)">>,
            <<"uom", "VARCHAR(32)">>, <<"alternate_uom", "VARCHAR(32)">>,
            <<"conversion", "INTEGER DEFAULT 0">>,
            <<"opening_balance", "NUMERIC DEFAULT 0">>,
            <<"opening_rate", "NUMERIC DEFAULT 0">>,
            <<"opening_value", "NUMERIC DEFAULT 0">>,
            <<"closing_balance", "NUMERIC DEFAULT 0">>,
            <<"closing_rate", "NUMERIC DEFAULT 0">>,
            <<"closing_value", "NUMERIC DEFAULT 0">>,
            <<"costing_method", "VARCHAR(32)">>,
            <<"gst_type_of_supply", "VARCHAR(32)">>,
            <<"gst_hsn_code", "VARCHAR(64)">>,
            <<"gst_hsn_description", "VARCHAR(256)">>,
            <<"gst_rate", "NUMERIC DEFAULT 0">>,
            <<"gst_taxability", "VARCHAR(32)">>,
            <<"user_id", "VARCHAR(255)">>,
            <<"company_name", "VARCHAR(255)">>>>],
      [name |-> "mst_employee",
       relationships |->
          <<"trn_employee.employee_name = mst_employee.name",
            "trn_payhead.employee_name = mst_employee.name",
            "trn_attendance.employee_name = mst_employee.name">>,
       columns |->
          <<<<"guid", "VARCHAR(64) PRIMARY KEY">>,
            <<"name", "VARCHAR(1024)">>, <<"parent", "VARCHAR(1024)">>,
            <<"id_number", "VARCHAR(256)">>, <<"date_of_joining", "DATE">>,
            <<"date_of_release", "DATE">>, <<"designation", "VARCHAR(64)">>,
            <<"function_role", "VARCHAR(64)">>,
            <<"location", "VARCHAR(256)">>, <<"gender", "VARCHAR(32)">>,
            <<"date_of_birth", "DATE">>, <<"blood_group", "VARCHAR(32)">>,
            <<"father_mother_name", "VARCHAR(256)">>,
            <<"spouse_name", "VARCHAR(256)">>, <<"address", "VARCHAR(256)">>,
            <<"mobile", "VARCHAR(32)">>, <<"email", "VARCHAR(64)">>,
            <<"pan", "VARCHAR(32)">>, <<"aadhar", "VARCHAR(32)">>,
            <<"uan", "VARCHAR(32)">>, <<"pf_number", "VARCHAR(32)">>,
            <<"pf_joining_date", "DATE">>, <<"pf_relieving_date", "DATE">>,
            <<"pr_account_number", "VARCHAR(32)">>,
            <<"user_id", "VARCHAR(255)">>,
            <<"company_name", "VARCHAR(255)">>>>],
      [name |-> "trn_voucher",
       relationships |->
          <<"trn_accounting.guid = trn_voucher.guid",
            "trn_inventory.guid = trn_voucher.guid",
            "trn_cost_centre.guid = trn_voucher.guid">>,
       columns |->
          <<<<"guid", "VARCHAR(64) PRIMARY KEY">>, <<"date", "DATE">>,
            <<"voucher_type", "VARCHAR(1024)">>,
            <<"voucher_number", "VARCHAR(64)">>,
            <<"reference_number", "VARCHAR(64)">>,
            <<"reference_date", "DATE">>, <<"narration", "VARCHAR(4000)">>,
            <<"party_name", "VARCHAR(256)">>,
            <<"place_of_supply", "VARCHAR(256)">>,
            <<"is_invoice", "SMALLINT">>,
            <<"is_accounting_voucher", "SMALLINT">>,
            <<"is_inventory_voucher", "SMALLINT">>,
            <<"is_order_voucher", "SMALLINT">>,
            <<"user_id", "VARCHAR(255)">>,
            <<"company_name", "VARCHAR(255)">>>>],
      [name |-> "trn_accounting",
       relationships |->
          <<"trn_accounting.guid = trn_voucher.guid",
            "trn_accounting.ledger = mst_ledger.name">>,
       columns |->
          <<<<"guid", "VARCHAR(64)">>, <<"ledger", "VARCHAR(1024)">>,
            <<"amount", "NUMERIC DEFAULT 0">>,
            <<"amount_forex", "NUMERIC DEFAULT 0">>,
            <<"currency", "VARCHAR(16)">>, <<"user_id", "VARCHAR(255)">>,
            <<"company_name", "VARCHAR(255)">>>>],
      [name |-> "trn_inventory",
       relationships |->
          <<"trn_inventory.guid = trn_voucher.guid",
            "trn_inventory.item = mst_stock_item.name">>,
       columns |->
          <<<<"guid", "VARCHAR(64)">>, <<"item", "VARCHAR(1024)">>,
            <<"quantity", "NUMERIC DEFAULT 0">>,
            <<"rate", "NUMERIC DEFAULT 0">>,
            <<"amount", "NUMERIC DEFAULT 0">>,
            <<"additional_amount", "NUMERIC DEFAULT 0">>,
            <<"discount_amount", "NUMERIC DEFAULT 0">>,
            <<"godown", "VARCHAR(1024)">>,
            <<"tracking_number", "VARCHAR(256)">>,
            <<"order_number", "VARCHAR(256)">>, <<"order_duedate", "DATE">>,
            <<"user_id", "VARCHAR(255)">>,
            <<"company_name", "VARCHAR(255)">>>>],
      [name |-> "trn_payhead",
       relationships |->
          <<"trn_payhead.guid = trn_voucher.guid",
            "trn_payhead.employee_name = mst_employee.name">>,
       columns |->
          <<<<"guid", "VARCHAR(64)">>, <<"category", "VARCHAR(1024)">>,
            <<"employee_name", "VARCHAR(1024)">>,
            <<"employee_sort_order", "INTEGER DEFAULT 0">>,
            <<"payhead_name", "VARCHAR(1024)">>,
            <<"payhead_sort_order", "INTEGER DEFAULT 0">>,
            <<"amount", "NUMERIC DEFAULT 0">>, <<"user_id", "VARCHAR(255)">>,
            <<"company_name", "VARCHAR(255)">>>>],
      [name |-> "trn_attendance",
       relationships |->
          <<"trn_attendance.guid = trn_voucher.guid",
            "trn_attendance.employee_name = mst_employee.name">>,
       columns |->
          <<<<"guid", "VARCHAR(64)">>, <<"employee_name", "VARCHAR(1024)">>,
            <<"attendancetype_name", "VARCHAR(1024)">>,
            <<"time_value", "NUMERIC DEFAULT 0">>,
            <<"type_value", "NUMERIC DEFAULT 0">>,
            <<"user_id", "VARCHAR(255)">>,
            <<"company_name", "VARCHAR(255)">>>>] >>

\* the tables NaturalLanguageParser.__init__ builds, each in the order of its
\* dict.  Of date_patterns, the patterns that need a digit are left out (the
\* sentences parsed here have none), and the alternatives of a pattern are
\* spelled out
ParserTables ==
    [action_patterns |->
        <<[key |-> "SELECT", words |-> <<"show", "display", "get", "find", "list", "fetch", "retrieve", "select", "give me", "what are", "which", "view", "report", "summary", "details">>],
          [key |-> "INSERT", words |-> <<"insert", "add", "create", "new", "entry">>],
          [key |-> "UPDATE", words |-> <<"update", "modify", "change", "set", "edit">>],
          [key |-> "DELETE", words |-> <<"delete", "remove", "drop">>]>>,
     table_aliases |->
        <<<<"employees", "mst_employee">>, <<"employee", "mst_employee">>,
          <<"staff", "mst_employee">>, <<"workers", "mst_employee">>,
          <<"ledgers", "mst_ledger">>, <<"ledger", "mst_ledger">>,
          <<"accounts", "mst_ledger">>, <<"account", "mst_ledger">>,
          <<"parties", "mst_ledger">>, <<"customers", "mst_ledger">>,
          <<"suppliers", "mst_ledger">>, <<"vendors", "mst_ledger">>,
          <<"items", "mst_stock_item">>, <<"stock", "mst_stock_item">>,
          <<"inventory", "mst_stock_item">>,
          <<"products", "mst_stock_item">>, <<"goods", "mst_stock_item">>,
          <<"vouchers", "trn_voucher">>, <<"voucher", "trn_voucher">>,
          <<"transactions", "trn_voucher">>, <<"entries", "trn_voucher">>,
          <<"sales", "trn_voucher">>, <<"purchases", "trn_voucher">>,
          <<"receipts", "trn_voucher">>, <<"payments", "trn_voucher">>,
          <<"accounting", "trn_accounting">>,
          <<"journal", "trn_accounting">>, <<"payroll", "trn_payhead">>,
          <<"salary", "trn_payhead">>, <<"wages", "trn_payhead">>,
          <<"attendance", "trn_attendance">>>>,
     column_aliases |->
        <<<<"employee_name", "name">>, <<"emp_name", "name">>,
          <<"staff_name", "name">>, <<"party_name", "name">>,
          <<"customer_name", "name">>, <<"supplier_name", "name">>,
          <<"vendor_name", "name">>, <<"ledger_name", "name">>,
          <<"account_name", "name">>, <<"item_name", "name">>,
          <<"stock_name", "name">>, <<"product_name", "name">>,
          <<"emp_id", "id_number">>, <<"employee_id", "id_number">>,
          <<"staff_id", "id_number">>, <<"joining_date", "date_of_joining">>,
          <<"doj", "date_of_joining">>, <<"start_date", "date_of_joining">>,
          <<"salary_amount", "amount">>, <<"pay_amount", "amount">>,
          <<"wage_amount", "amount">>,
          <<"stock_balance", "closing_balance">>,
          <<"inventory_balance", "closing_balance">>,
          <<"current_balance", "closing_balance">>,
          <<"voucher_date", "date">>, <<"transaction_date", "date">>,
          <<"entry_date", "date">>, <<"gst_number", "gstn">>,
          <<"pan_number", "it_pan">>, <<"mobile_number", "mobile">>,
          <<"phone_number", "mobile">>>>,
     aggregation_keywords |->
        <<[key |-> "count", words |-> <<"count", "how many", "number of", "total count">>],
          [key |-> "sum", words |-> <<"sum", "total", "aggregate", "add up", "total amount">>],
          [key |-> "avg", words |-> <<"average", "avg", "mean">>],
          [key |-> "max", words |-> <<"maximum", "max", "highest", "largest", "top">>],
          [key |-> "min", words |-> <<"minimum", "min", "lowest", "smallest", "bottom">>]>>,
     condition_keywords |->
        <<[key |-> "=", words |-> <<"is", "equals", "equal to", "=", "named", "called">>],
          [key |-> ">", words |-> <<"greater than", "more than", "over", "above", "exceeds", ">">>],
          [key |-> "<", words |-> <<"less than", "below", "under", "fewer than", "<">>],
          [key |-> ">=", words |-> <<"at least", "greater than or equal", "minimum", ">=">>],
          [key |-> "<=", words |-> <<"at most", "less than or equal", "maximum", "<=">>],
          [key |-> "!=", words |-> <<"not equal", "not", "different from", "other than", "!=">>],
          [key |-> "LIKE", words |-> <<"contains", "includes", "has", "with", "like", "similar to">>],
          [key |-> "IN", words |-> <<"in", "among", "one of", "any of">>],
          [key |-> "BETWEEN", words |-> <<"between", "from ... to", "range", "within">>]>>,
     voucher_type_filters |->
        <<<<"sales", "voucher_type = 'Sales'">>,
          <<"purchase", "voucher_type = 'Purchase'">>,
          <<"payment", "voucher_type = 'Payment'">>,
          <<"receipt", "voucher_type = 'Receipt'">>,
          <<"journal", "voucher_type = 'Journal'">>,
          <<"payroll", "voucher_type = 'Payroll'">>>>,
     date_patterns |->
        <<[key |-> "today", words |-> <<"today">>],
          [key |-> "current_period", words |-> <<"this month", "this year">>],
          [key |-> "last_period", words |-> <<"last month", "last year">>]>>,
     gst_patterns |->
        <<<<"with gst", "gstn IS NOT NULL">>,
          <<"without gst", "gstn IS NULL">>,
          <<"gst registered", "gstn IS NOT NULL">>,
          <<"non gst", "gstn IS NULL">>>>]

\* sub in s
IsIn(sub, s) ==
    \E i \in 1..(Len(s) - Len(sub) + 1) : SubSeq(s, i, i + Len(sub) - 1) = sub

\* any(word in s for word in words)
AnyIn(words, s) == \E k \in DOMAIN words : IsIn(words[k], s)

\* s.strip()
RECURSIVE StripStr(_)
StripStr(s) ==
    IF Len(s) = 0 THEN s
    ELSE IF SubSeq(s, 1, 1) = " " THEN StripStr(SubSeq(s, 2, Len(s)))
    ELSE IF SubSeq(s, Len(s), Len(s)) = " " THEN StripStr(SubSeq(s, 1, Len(s) - 1))
    ELSE s

\* the length of the run of characters other than a blank that s starts with
RECURSIVE WordLen(_)
WordLen(s) ==
    IF Len(s) = 0 \/ SubSeq(s, 1, 1) = " " THEN 0
    ELSE 1 + WordLen(SubSeq(s, 2, Len(s)))

\* s.split()
RECURSIVE Words(_)
Words(s) ==
    IF Len(s) = 0 THEN <<>>
    ELSE IF SubSeq(s, 1, 1) = " " THEN Words(SubSeq(s, 2, Len(s)))
    ELSE <<SubSeq(s, 1, WordLen(s))>> \o Words(SubSeq(s, WordLen(s) + 1, Len(s)))

\* the elements of a list in the order of their first occurrence: what
\* `if x not in xs: xs.append(x)` keeps
RECURSIVE Uniq(_)
Uniq(xs) ==
    IF xs = <<>> THEN xs
    ELSE IF \E i \in 1..(Len(xs) - 1) : xs[i] = xs[Len(xs)]
    THEN Uniq(SubSeq(xs, 1, Len(xs) - 1))
    ELSE Append(Uniq(SubSeq(xs, 1, Len(xs) - 1)), xs[Len(xs)])

\* xs[:1]
FirstOf(xs) == IF xs = <<>> THEN xs ELSE <<xs[1]>>

\* the lists of a list, one after the other
RECURSIVE Flat(_)
Flat(lists) == IF lists = <<>> THEN <<>> ELSE Head(lists) \o Flat(Tail(lists))

\* table in schema, and schema[table]['columns']
HasTable(schema, table) == \E i \in DOMAIN schema : schema[i].name = table
ColumnsOf(schema, table) ==
    IF HasTable(schema, table)
    THEN schema[CHOOSE i \in DOMAIN schema : schema[i].name = table].columns
    ELSE <<>>

\* some table of `tables` has the column in the schema
HasColumn(schema, tables, column) ==
    \E i \in DOMAIN tables :
        \E k \in DOMAIN ColumnsOf(schema, tables[i]) :
            ColumnsOf(schema, tables[i])[k][1] = column

\* NaturalLanguageParser._detect_action
DetectAction(self, query) ==
    IF \E i \in DOMAIN self.action_patterns : AnyIn(self.action_patterns[i].words, query)
    THEN self.action_patterns[
            CHOOSE i \in DOMAIN self.action_patterns :
                /\ AnyIn(self.action_patterns[i].words, query)
                /\ \A j \in 1..(i - 1) : ~AnyIn(self.action_patterns[j].words, query)].key
    ELSE "SELECT"

\* the tables _extract_tables infers from the context when it found none
InferTables(tables, query, schema) ==
    IF tables # <<>> THEN tables
    ELSE IF AnyIn(<<"salary", "payroll", "employee", "staff">>, query)
    THEN SelectSeq(<<"mst_employee", "trn_payhead">>, LAMBDA t : HasTable(schema, t))
    ELSE IF AnyIn(<<"voucher", "transaction", "sales", "purchase">>, query)
    THEN SelectSeq(<<"trn_voucher">>, LAMBDA t : HasTable(schema, t))
    ELSE IF AnyIn(<<"ledger", "account", "customer", "supplier">>, query)
    THEN SelectSeq(<<"mst_ledger">>, LAMBDA t : HasTable(schema, t))
    ELSE IF AnyIn(<<"stock", "item", "inventory", "product">>, query)
    THEN SelectSeq(<<"mst_stock_item">>, LAMBDA t : HasTable(schema, t))
    ELSE <<>>

Second(pairs) == [i \in DOMAIN pairs |-> pairs[i][2]]
First(pairs) == [i \in DOMAIN pairs |-> pairs[i][1]]

\* NaturalLanguageParser._extract_tables: the aliases found in the query, then
\* the table names found in it
ExtractTables(self, query, schema) ==
    InferTables(
        Uniq(Second(SelectSeq(self.table_aliases,
                        LAMBDA a : IsIn(a[1], query) /\ HasTable(schema, a[2])))
             \o SelectSeq([i \in DOMAIN schema |-> schema[i].name],
                          LAMBDA t : IsIn(LowerStr(t), query))),
        query, schema)

\* the columns _extract_columns falls back to when the query names none
InferColumns(columns, query, tables) ==
    IF columns # <<>> THEN columns
    ELSE IF AnyIn(<<"summary", "report">>, query)
            /\ \E i \in DOMAIN tables :
                  tables[i] \in {"mst_employee", "mst_ledger", "mst_stock_item", "trn_voucher"}
    THEN IF \E i \in DOMAIN tables : tables[i] = "mst_employee"
         THEN <<"name", "designation", "location">>
         ELSE IF \E i \in DOMAIN tables : tables[i] = "mst_ledger"
         THEN <<"name", "closing_balance">>
         ELSE IF \E i \in DOMAIN tables : tables[i] = "mst_stock_item"
         THEN <<"name", "closing_balance", "closing_value">>
         ELSE <<"date", "voucher_type", "voucher_number", "party_name">>
    ELSE IF tables # <<>> THEN <<"*">>
    ELSE <<>>

\* NaturalLanguageParser._extract_columns
ExtractColumns(self, query, schema, tables) ==
    IF AnyIn(<<"all", "everything", "all columns", "*", "details">>, query) THEN <<"*">>
    ELSE InferColumns(
            Uniq(Second(SelectSeq(self.column_aliases,
                            LAMBDA a : IsIn(a[1], query) /\ HasColumn(schema, tables, a[2])))
                 \o Flat([i \in DOMAIN tables |->
                        SelectSeq(First(ColumnsOf(schema, tables[i])),
                                  LAMBDA c : IsIn(LowerStr(c), query))])),
            query, tables)

\* NaturalLanguageParser._resolve_field_alias: <<>> is None
ResolveFieldAlias(self, field, tables, schema) ==
    IF \E i \in DOMAIN self.column_aliases :
            /\ self.column_aliases[i][1] = LowerStr(field)
            /\ HasColumn(schema, tables, self.column_aliases[i][2])
    THEN <<self.column_aliases[
                CHOOSE i \in DOMAIN self.column_aliases :
                    self.column_aliases[i][1] = LowerStr(field)][2]>>
    ELSE FirstOf(Flat([i \in DOMAIN tables |->
                        SelectSeq(First(ColumnsOf(schema, tables[i])),
                                  LAMBDA c : LowerStr(c) = LowerStr(field))]))

\* re.finditer of the pattern of _extract_conditions (line 318) for one
\* keyword, on the words of the query from the i-th on: a word, the keyword,
\* and the word after it as the value
RECURSIVE KeywordMatches(_, _, _)
KeywordMatches(words, keyword, i) ==
    IF i + Len(keyword) + 1 > Len(words) THEN <<>>
    ELSE IF SubSeq(words, i + 1, i + Len(keyword)) = keyword
    THEN <<[field |-> words[i], value |-> words[i + Len(keyword) + 1]]>>
         \o KeywordMatches(words, keyword, i + Len(keyword) + 2)
    ELSE KeywordMatches(words, keyword, i + 1)

\* the condition of one match, if its field resolves (lines 324-333)
MatchCondition(resolved, operator, value) ==
    IF resolved = <<>> THEN <<>> ELSE <<Cond(resolved[1], operator, <<value>>, "")>>

MatchConditions(self, matches, operator, tables, schema) ==
    Flat([m \in DOMAIN matches |->
            MatchCondition(ResolveFieldAlias(self, matches[m].field, tables, schema),
                           operator, matches[m].value)])

\* the conditions of one operator of condition_keywords (lines 315-333)
OperatorConditions(self, entry, words, schema, tables) ==
    Flat([k \in DOMAIN entry.words |->
            MatchConditions(self, KeywordMatches(words, Words(entry.words[k]), 1),
                            entry.key, tables, schema)])

\* the alternatives of a pattern that match at the i-th character
MatchAt(alternatives, query, i) ==
    SelectSeq(alternatives,
              LAMBDA a : i + Len(a) - 1 <= Len(query) /\ SubSeq(query, i, i + Len(a) - 1) = a)

\* re.finditer of one of date_patterns: the matches from the i-th character
\* on, left to right
RECURSIVE DateMatches(_, _, _)
RECURSIVE DateMatchesNext(_, _, _, _)
DateMatches(alternatives, query, i) ==
    IF i > Len(query) THEN <<>>
    ELSE DateMatchesNext(alternatives, query, i, MatchAt(alternatives, query, i))
DateMatchesNext(alternatives, query, i, hits) ==
    IF hits = <<>> THEN DateMatches(alternatives, query, i + 1)
    ELSE <<hits[1]>> \o DateMatches(alternatives, query, i + Len(hits[1]))

\* NaturalLanguageParser._find_date_columns
FindDateColumns(tables, schema) ==
    Flat([i \in DOMAIN tables |->
        First(SelectSeq(ColumnsOf(schema, tables[i]),
                        LAMBDA c : AnyIn(<<"date", "datetime", "timestamp">>, LowerStr(c[2]))))])

\* the conditions on gstn (lines 335-343) and on the voucher type (345-353)
GstConditions(found) ==
    [i \in DOMAIN found |-> Cond("gstn", "raw_condition", <<found[i][2]>>, "")]
VoucherConditions(found) ==
    [i \in DOMAIN found |->
        Cond("voucher_type", "=",
             <<UpperStr(SubSeq(found[i][1], 1, 1)) \o SubSeq(found[i][1], 2, Len(found[i][1]))>>,
             "")]

\* the date conditions of one pattern (lines 355-367)
DateConditions(date_columns, matches, date_type) ==
    IF date_columns = <<>> THEN <<>>
    ELSE [m \in DOMAIN matches |->
            Cond(date_columns[1], "date_condition", <<matches[m]>>, date_type)]

\* NaturalLanguageParser._extract_conditions
ExtractConditions(self, query, schema, tables) ==
    Flat([i \in DOMAIN self.condition_keywords |->
            OperatorConditions(self, self.condition_keywords[i], Words(query), schema, tables)])
    \o GstConditions(SelectSeq(self.gst_patterns, LAMBDA p : IsIn(p[1], query)))
    \o VoucherConditions(SelectSeq(self.voucher_type_filters, LAMBDA p : IsIn(p[1], query)))
    \o Flat([i \in DOMAIN self.date_patterns |->
            DateConditions(FindDateColumns(tables, schema),
                           DateMatches(self.date_patterns[i].words, query, 1),
                           self.date_patterns[i].key)])

\* NaturalLanguageParser._extract_tally_filters
ExtractTallyFilters(query) ==
    (IF AnyIn(<<"positive balance", "credit balance">>, query)
     THEN <<Cond("closing_balance", ">", <<"0">>, "")>>
     ELSE IF AnyIn(<<"negative balance", "debit balance">>, query)
     THEN <<Cond("closing_balance", "<", <<"0">>, "")>>
     ELSE <<>>)
    \o (IF AnyIn(<<"out of stock", "zero stock">>, query)
        THEN <<Cond("closing_balance", "<=", <<"0">>, "")>>
        ELSE IF IsIn("low stock", query)
        THEN <<Cond("closing_balance", "<", <<"10">>, "")>>
        ELSE <<>>)
    \o (IF AnyIn(<<"active employee", "current employee">>, query)
        THEN <<Cond("date_of_release", "IS NULL", <<>>, "")>>
        ELSE IF AnyIn(<<"ex employee", "former employee">>, query)
        THEN <<Cond("date_of_release", "IS NOT NULL", <<>>, "")>>
        ELSE <<>>)

\* the join conditions _extract_joins knows (lines 452-461)
tally_joins ==
    << <<"trn_voucher", "trn_accounting", "trn_voucher.guid = trn_accounting.guid">>,
       <<"trn_voucher", "trn_inventory", "trn_voucher.guid = trn_inventory.guid">>,
       <<"trn_voucher", "trn_payhead", "trn_voucher.guid = trn_payhead.guid">>,
       <<"trn_voucher", "trn_attendance", "trn_voucher.guid = trn_attendance.guid">>,
       <<"mst_employee", "trn_payhead", "mst_employee.name = trn_payhead.employee_name">>,
       <<"mst_employee", "trn_attendance", "mst_employee.name = trn_attendance.employee_name">>,
       <<"mst_ledger", "trn_accounting", "mst_ledger.name = trn_accounting.ledger">>,
       <<"mst_stock_item", "trn_inventory", "mst_stock_item.name = trn_inventory.item">> >>

\* the join of one pair of tables, in the order of the key that was found
\* (lines 468-481)
PairJoin(table1, table2) ==
    IF \E k \in DOMAIN tally_joins : tally_joins[k][1] = table1 /\ tally_joins[k][2] = table2
    THEN <<[type |-> "INNER", table1 |-> table1, table2 |-> table2,
            on |-> tally_joins[CHOOSE k \in DOMAIN tally_joins :
                        tally_joins[k][1] = table1 /\ tally_joins[k][2] = table2][3]]>>
    ELSE IF \E k \in DOMAIN tally_joins : tally_joins[k][1] = table2 /\ tally_joins[k][2] = table1
    THEN <<[type |-> "INNER", table1 |-> table2, table2 |-> table1,
            on |-> tally_joins[CHOOSE k \in DOMAIN tally_joins :
                        tally_joins[k][1] = table2 /\ tally_joins[k][2] = table1][3]]>>
    ELSE <<>>

\* NaturalLanguageParser._extract_joins
ExtractJoins(tables) ==
    Flat([i \in DOMAIN tables |->
        Flat([j \in 1..(Len(tables) - i) |-> PairJoin(tables[i], tables[i + j])])])

\* the aggregation one keyword adds (lines 491-514)
KeywordAggregation(func, columns) ==
    IF func = "count" THEN Agg("COUNT", "*")
    ELSE Agg(UpperStr(func),
             Head(SelectSeq(columns,
                    LAMBDA c : c \in {"amount", "closing_balance", "closing_value",
                                      "opening_balance"})
                  \o <<"amount">>))

\* NaturalLanguageParser._extract_aggregations
ExtractAggregations(self, query, columns) ==
    Flat([i \in DOMAIN self.aggregation_keywords |->
        [k \in DOMAIN SelectSeq(self.aggregation_keywords[i].words,
                                LAMBDA w : IsIn(w, query)) |->
            KeywordAggregation(self.aggregation_keywords[i].key, columns)]])

\* re.search(rf"{keyword}\s+(\w+)", query): the word of the first match, <<>>
\* if there is none
WordAfter(keyword, query) ==
    IF \E i \in 1..Len(query) :
            /\ i + Len(keyword) + 1 <= Len(query)
            /\ SubSeq(query, i, i + Len(keyword)) = keyword \o " "
            /\ SubSeq(query, i + Len(keyword) + 1, i + Len(keyword) + 1) # " "
    THEN <<Head(Words(SubSeq(query,
                (CHOOSE i \in 1..Len(query) :
                    /\ i + Len(keyword) + 1 <= Len(query)
                    /\ SubSeq(query, i, i + Len(keyword)) = keyword \o " "
                    /\ SubSeq(query, i + Len(keyword) + 1, i + Len(keyword) + 1) # " "
                    /\ \A j \in 1..(i - 1) :
                          ~(/\ SubSeq(query, j, j + Len(keyword)) = keyword \o " "
                            /\ SubSeq(query, j + Len(keyword) + 1, j + Len(keyword) + 1) # " "))
                + Len(keyword) + 1, Len(query))))>>
    ELSE <<>>

\* NaturalLanguageParser._extract_group_by
ExtractGroupBy(query, columns) ==
    (IF AnyIn(<<"by employee", "per employee">>, query) THEN <<"employee_name">>
     ELSE IF AnyIn(<<"by ledger", "per ledger">>, query) THEN <<"ledger">>
     ELSE IF AnyIn(<<"by item", "per item">>, query) THEN <<"item">>
     ELSE IF IsIn("by voucher type", query) THEN <<"voucher_type">>
     ELSE IF IsIn("by month", query) THEN <<"strftime('%Y-%m', date)">>
     ELSE IF IsIn("by year", query) THEN <<"strftime('%Y', date)">>
     ELSE <<>>)
    \o Flat([k \in 1..4 |->
            SelectSeq(WordAfter(<<"by", "per", "for each", "group by">>[k], query),
                      LAMBDA field : \E c \in DOMAIN columns : columns[c] = field)])

\* NaturalLanguageParser._extract_order_by
ExtractOrderBy(query) ==
    IF AnyIn(<<"highest amount", "top amount">>, query)
    THEN <<[column |-> "amount", direction |-> "DESC"]>>
    ELSE IF AnyIn(<<"lowest amount", "bottom amount">>, query)
    THEN <<[column |-> "amount", direction |-> "ASC"]>>
    ELSE IF AnyIn(<<"alphabetical", "by name">>, query)
    THEN <<[column |-> "name", direction |-> "ASC"]>>
    ELSE IF AnyIn(<<"latest", "recent">>, query)
    THEN <<[column |-> "date", direction |-> "DESC"]>>
    ELSE IF IsIn("oldest", query)
    THEN <<[column |-> "date", direction |-> "ASC"]>>
    ELSE <<>>

\* the clauses of _parse_select_query that are read off the columns; the
\* limit is None, every pattern of _extract_limit needs a digit
SelectClauses(self, query, tables, columns) ==
    Shape(columns, ExtractJoins(tables), ExtractAggregations(self, query, columns),
          ExtractGroupBy(query, columns), ExtractOrderBy(query), 0)

\* NaturalLanguageParser._parse_select_query
ParseSelectQuery(self, query, schema, user_filters, tables) ==
    Parsed("SELECT", tables,
           ExtractConditions(self, query, schema, tables) \o ExtractTallyFilters(query),
           SelectClauses(self, query, tables, ExtractColumns(self, query, schema, tables)),
           user_filters)

\* _parse_insert_query, _parse_update_query and _parse_delete_query
ParseMutationQuery(self, action, query, schema, user_filters, tables) ==
    Parsed(action, FirstOf(tables),
           IF action = "INSERT" THEN <<>> ELSE ExtractConditions(self, query, schema, tables),
           NoShape, user_filters)

\* the dispatch of parse on the action (lines 182-191)
ParseAction(self, action, query, schema, user_filters) ==
    IF action \in {"INSERT", "UPDATE", "DELETE"}
    THEN ParseMutationQuery(self, action, query, schema, user_filters,
                            ExtractTables(self, query, schema))
    ELSE ParseSelectQuery(self, query, schema, user_filters,
                          ExtractTables(self, query, schema))

\* NaturalLanguageParser.parse
ParseQuery(self, query, schema, user_filters) ==
    ParseAction(self, DetectAction(self, StripStr(LowerStr(query))),
                StripStr(LowerStr(query)), schema, user_filters)

\* the words a sentence is made of
MaxWords == 2

Vocabulary ==
    {"Show", "delete", "ledgers", "mst_ledger", "mst_group", "trn_voucher",
     "trn_accounting", "name is abc", "by name", "with gst", "positive balance"}

\* ' '.join(phrases)
RECURSIVE Sentence(_)
Sentence(phrases) ==
    IF phrases = <<>> THEN ""
    ELSE IF Len(phrases) = 1 THEN phrases[1]
    ELSE phrases[1] \o " " \o Sentence(Tail(phrases))

Sentences == {Sentence(phrases) : phrases \in SeqsUpTo(Vocabulary, MaxWords)}

\* the queries of another user that are parsed in between
OtherQueries == {"Show mst_ledger", "total payroll today"}

\* a parser that forgets its table aliases once it has parsed
SelfForgetsAliases(self) == [self EXCEPT !.table_aliases = <<>>]

\* parse assigns no attribute of the parser: self is after the call what it
\* was before it
SelfAfterParse(self) == self

\* the first half of the handler of the Generate button (app.py 381-388) with
\* the parser of the application
ParseText(query, user_filters) ==
    /\ call.status = "done"
    /\ nl_query' = query
    /\ call' = Request("generate", "", ParseQuery(parser, query, TallySchema, user_filters))
    /\ parser' = SelfAfterParse(parser)
    /\ UNCHANGED <<assumptions, confidence, parameters, sql_result, valVars, execVars,
                   fbVars, judgeVars, user_query, nl_confidence, moreVars>>

\* the user's sentence is parsed, for the first time or again
ParseTyped ==
    /\ ParseText(user_query, [user_id |-> <<"demo_user">>, company_name |-> <<"Demo Company Ltd">>])
    /\ first_parse' = IF first_parse = <<>> THEN <<call'.parsed>> ELSE first_parse

\* a query of another user is parsed on the same instance
ParseOther ==
    /\ first_parse # <<>>
    /\ \E query \in OtherQueries :
            ParseText(query, [user_id |-> <<"u2">>, company_name |-> <<"Acme">>])
    /\ UNCHANGED first_parse

(* SpecParse: one sentence, parsed and generated any number of times, with  *)
(* other queries in between.                                               *)
InitParse ==
    /\ InitFields
    /\ sql_result = NoResult
    /\ call = NoCall
    /\ InitVal
    /\ InitExec
    /\ InitFeedback
    /\ InitJudge
    /\ InitMore
    /\ user_query \in Sentences
    /\ nl_query = ""
    /\ first_parse = <<>>
    /\ parser = ParserTables
    /\ nl_confidence = <<>>

NextParse == ParseTyped \/ ParseOther \/ Generate

SpecParse == InitParse /\ [][NextParse]_vars

----------------------------------------------------------------------------
(* The artifact a caller kept *)

\* C21: an artifact generate() returned is immutable: its 'parameters' and
\* 'assumptions' lists hold after every later generate() and
\* generate_tally_report_query() call what they held when it was returned.
C21_ArtifactImmutable ==
    artifact # <<>> =>
        /\ artifact[1].parameters = artifact[1].returned.parameters
        /\ artifact[1].assumptions = artifact[1].returned.assumptions

----------------------------------------------------------------------------
(* Properties of the parser *)

\* the relationship strings the schema declares between two tables: the
\* entries of the "relationships" lists that name a column of each
DeclaredRelationships(schema, table1, table2) ==
    {rel \in UNION {{schema[i].relationships[k] : k \in DOMAIN schema[i].relationships} :
                        i \in DOMAIN schema} :
        IsIn(table1 \o ".", rel) /\ IsIn(table2 \o ".", rel)}

\* the pairs of tables of the schema a sentence mentions by name that have a
\* declared relationship
RelatedMentions(schema, query) ==
    {pair \in {schema[i].name : i \in DOMAIN schema} \X {schema[i].name : i \in DOMAIN schema} :
        /\ pair[1] # pair[2]
        /\ IsIn(pair[1], LowerStr(query))
        /\ IsIn(pair[2], LowerStr(query))
        /\ DeclaredRelationships(schema, pair[1], pair[2]) # {}}

\* the positions of the JOIN clauses of a statement
JoinClausesAt(text) == {i \in DOMAIN text : text[i] = " JOIN "}

\* the typed sentence has been parsed and its statement generated
GeneratedTyped == Generated /\ nl_query = user_query

\* C18: when the sentence names two tables with a relationship declared in
\* the schema, the parse has exactly one join, of kind INNER, whose condition
\* is the declared relationship string, and the statement has exactly one
\* INNER JOIN clause, with that condition.
C18_DeclaredJoinRoundTrip ==
    \A pair \in RelatedMentions(TallySchema, user_query) :
        GeneratedTyped =>
            /\ Len(call.parsed.joins) = 1
            /\ call.parsed.joins[1].type = "INNER"
            /\ call.parsed.joins[1].on \in DeclaredRelationships(TallySchema, pair[1], pair[2])
            /\ Cardinality(JoinClausesAt(sql_result.query)) = 1
            /\ \A i \in JoinClausesAt(sql_result.query) :
                    /\ sql_result.query[i - 1] = "INNER"
                    /\ sql_result.query[i + 3] = call.parsed.joins[1].on

----------------------------------------------------------------------------
(* The parser's confidence score *)

\* NaturalLanguageParser._calculate_confidence (nl_parser.py), in tenths:
\* the slots of the parse that are filled, and `cue`: one of the words show,
\* list and get is in the query
SlotTenths(parsed, cue) ==
    3 + (IF parsed.tables # <<>> THEN 2 ELSE 0)
      + (IF parsed.columns # <<>> THEN 2 ELSE 0)
      + (IF parsed.action # "SELECT" \/ cue THEN 1 ELSE 0)
      + (IF parsed.conditions # <<>> THEN 1 ELSE 0)
      + (IF Len(parsed.tables) > 1 /\ parsed.joins # <<>> THEN 1 ELSE 0)

CalculateConfidence(parsed, cue) ==
    Frac(IF SlotTenths(parsed, cue) < 10 THEN SlotTenths(parsed, cue) ELSE 10, 10)

\* parse_query scores its result (nl_parser.py line 215)
ScoreParse ==
    /\ call.op = "generate"
    /\ \E cue \in BOOLEAN : nl_confidence' = <<CalculateConfidence(call.parsed, cue)>>
    /\ UNCHANGED <<mainVars, fbVars, judgeVars, user_query, nl_query, first_parse, parser,
                   moreVars>>

(* SpecConfidence: one parse, scored by the parser and generated.          *)
NextConfidence == Generate \/ Report \/ ScoreParse

SpecConfidence == InitGen /\ [][NextConfidence]_vars

\* a confidence value is in [0, 1]
InUnit(c) == c.d > 0 /\ 0 <= c.n /\ c.n <= c.d

\* C19: the confidence is within [0.0, 1.0]: the value the parser computes
\* for every combination of resolved slots, and the value generate() returns
\* for every action, every number of joins and of assumptions.
C19_ConfidenceBounded ==
    /\ nl_confidence # <<>> => InUnit(nl_confidence[1])
    /\ Generated => InUnit(sql_result.confidence) /\ sql_result.confidence = confidence

\* every slot of the parse is filled and scored, and generate() has lowered
\* its confidence for a join and a recorded assumption
C19_Witness ==
    /\ nl_confidence = <<Frac(10, 10)>>
    /\ Generated
    /\ call.parsed.joins # <<>>
    /\ Len(sql_result.assumptions) > 1
    /\ sql_result.confidence.n > 0
    /\ sql_result.confidence.n < sql_result.confidence.d

\* C24: for a schema that is not empty the parse of every sentence has at
\* least one table - an inferred one or the first of the schema when the
\* text names none - so that generate() never writes a FROM clause for an
\* unknown table.
C24_AlwaysATable ==
    (call.op = "generate" /\ nl_query # "") =>
        /\ call.parsed.tables # <<>>
        /\ Generated => \A i \in DOMAIN sql_result.query : sql_result.query[i] # "unknown_table"

\* the warnings list of an artifact: the dict generate() returns has the
\* keys query, parameters, assumptions, confidence and parsed
Warnings(result) ==
    IF "warnings" \in DOMAIN result THEN result.warnings ELSE <<>>

\* the parse resolved two tables the schema declares no relationship between
Unrelated(schema, tables) ==
    /\ Len(tables) = 2
    /\ DeclaredRelationships(schema, tables[1], tables[2]) = {}

\* C25: when a sentence resolves to two tables with no declared relationship
\* between them, the parse has no join and the artifact carries a warning of
\* a Cartesian product, in a warnings list that is not the assumptions list.
C25_CartesianWarning ==
    (GeneratedTyped /\ call.parsed.action = "SELECT"
                    /\ Unrelated(TallySchema, call.parsed.tables)) =>
        /\ call.parsed.joins = <<>>
        /\ Warnings(sql_result) # <<>>

\* the table of the FROM clause of a statement and the tables it joins
FromTables(text) == {text[i + 1] : i \in {j \in DOMAIN text : text[j] = "FROM "}}
JoinedTables(text) == {text[i + 1] : i \in JoinClausesAt(text)}

\* the tables of the schema the ON conditions of a statement name
OnTables(schema, text) ==
    {schema[k].name : k \in {n \in DOMAIN schema :
        \E i \in JoinClausesAt(text) : IsIn(schema[n].name \o ".", text[i + 3])}}

\* C27: in the SQL generate() builds for a SELECT on several tables the FROM
\* table and the joined tables are pairwise distinct - the FROM table is not
\* joined to itself, no table is joined twice - and every table an ON
\* condition names is among them.
C27_JoinTablesDistinct ==
    (GeneratedTyped /\ call.parsed.action = "SELECT" /\ Len(call.parsed.tables) > 1) =>
        /\ Cardinality(JoinedTables(sql_result.query)) = Cardinality(JoinClausesAt(sql_result.query))
        /\ FromTables(sql_result.query) \cap JoinedTables(sql_result.query) = {}
        /\ OnTables(TallySchema, sql_result.query)
              \subseteq (FromTables(sql_result.query) \cup JoinedTables(sql_result.query))

----------------------------------------------------------------------------
(* Parsing again *)

----------------------------------------------------------------------------
(* Resolving a field hint *)

\* the words _extract_conditions can hand to _resolve_field_alias: column
\* names, aliases, and words that are neither, in either letter case
FieldHints ==
    {"employee_name", "Employee_Name", "name", "NAME", "emp_id", "id_number", "amount",
     "salary_amount", "voucher_date", "date", "ledger", "ledger_name", "guid", "balance"}

\* the lists of one or two tables _extract_tables can resolve
CandidateTables ==
    {<<TallySchema[i].name>> : i \in DOMAIN TallySchema}
    \cup {<<TallySchema[ij[1]].name, TallySchema[ij[2]].name>> :
            ij \in {p \in (DOMAIN TallySchema) \X (DOMAIN TallySchema) : p[1] # p[2]}}

\* one call of _resolve_field_alias on the parser of the application
Resolve ==
    /\ resolution = <<>>
    /\ resolution' = <<ResolveFieldAlias(ParserTables, hint.field, hint.tables, TallySchema)>>
    /\ UNCHANGED <<mainVars, fbVars, judgeVars, nlVars, artifact, patterns, hint, catVars>>

(* SpecResolve: _resolve_field_alias on every hint and every list of       *)
(* candidate tables.                                                       *)
InitResolve ==
    /\ InitFields
    /\ sql_result = NoResult
    /\ call = NoCall
    /\ InitVal
    /\ InitExec
    /\ InitFeedback
    /\ InitJudge
    /\ InitNoParser
    /\ artifact = <<>>
    /\ patterns = [s \in {"s1", "s2"} |-> <<>>]
    /\ hint \in [field : FieldHints, tables : CandidateTables]
    /\ resolution = <<>>
    /\ mgr = [s \in {"s1", "s2"} |->
                [pc |-> "none", schema |-> 0, connection |-> "None",
                 published |-> FALSE, found |-> "", reloads |-> 0]]
    /\ heap = <<>>
    /\ db = {}
    /\ held = [s \in {"s1", "s2"} |-> <<>>]

NextResolve == Resolve

SpecResolve == InitResolve /\ [][NextResolve]_vars

\* the columns of the candidate tables, in their order, whose name is the
\* hint in some letter case
ExactMatches(field, tables, schema) ==
    Flat([i \in DOMAIN tables |->
            SelectSeq(First(ColumnsOf(schema, tables[i])),
                      LAMBDA c : LowerStr(c) = LowerStr(field))])

\* C23: a hint that is itself a column of a candidate table resolves to that
\* column, also when the hint is an alias whose canonical column is in a
\* candidate table (employee_name with mst_employee and trn_payhead resolves
\* to employee_name, not to name).
C23_ExactBeforeAlias ==
    (resolution # <<>> /\ ExactMatches(hint.field, hint.tables, TallySchema) # <<>>) =>
        resolution[1] = <<ExactMatches(hint.field, hint.tables, TallySchema)[1]>>

----------------------------------------------------------------------------
\* The feedback patterns (feedback_manager.py 44-190).

\* the queries fed back, by their words: one with a stop word, one with a
\* word twice, one of stop words only
FeedbackQueries == {<<"Show", "the", "ledgers">>, <<"ledgers", "ledgers">>, <<"The">>}

\* 'neutral' stands for the types add_feedback does not know
FeedbackTypes == {"positive", "negative", "corrected", "neutral"}

\* correction: None, empty, or a statement
Corrections == {<<>>, <<"">>, <<"SELECT 1">>}

\* add_feedback calls in one run, over both managers
MaxCalls == 2

(* SpecPatterns: the managers of two sessions are called with feedback of  *)
(* every type, and save it.                                                *)
NextPatterns ==
    \E s \in Sessions :
        \/ Load(s)
        \/ \E natural_query \in FeedbackQueries, feedback_type \in FeedbackTypes,
              correction \in Corrections :
                /\ Own("s1") + Own("s2") < MaxCalls
                /\ AddEntry(s, "feedback", natural_query, feedback_type, correction)
        \/ OpenFile(s)
        \/ WriteFile(s)
        \/ CloseFile(s)

SpecPatterns == InitFeedbackStore /\ [][NextPatterns]_vars

\* xs is the beginning of ys
StartsList(ys, xs) == Len(xs) <= Len(ys) /\ SubSeq(ys, 1, Len(xs)) = xs

\* C29: across add_feedback calls on one FeedbackManager, each call, whatever
\* its feedback_type and correction, appends exactly one entry to
\* feedback_data['sessions']; existing entries are never removed or
\* reordered; and no pattern's success_count or fail_count decreases.
C29_FeedbackOnlyGrows ==
    [][\A s \in Sessions :
          /\ StartsList(feedback_data'[s].sessions, feedback_data[s].sessions)
          /\ (fb_at[s].at = "idle" /\ fb_at'[s].at = "feedback") =>
                 Len(feedback_data'[s].sessions) = Len(feedback_data[s].sessions) + 1
          /\ fb_at[s].at \in {"feedback", "open"} =>
                 feedback_data'[s].sessions = feedback_data[s].sessions
          /\ \A i \in DOMAIN patterns[s] :
                /\ i \in DOMAIN patterns'[s]
                /\ patterns'[s][i].phrase = patterns[s][i].phrase
                /\ patterns'[s][i].success_count >= patterns[s][i].success_count
                /\ patterns'[s][i].fail_count >= patterns[s][i].fail_count]_vars

\* a manager has taken two entries, the last a correction, and one of its
\* patterns has counted a success and a failure
C29_Witness ==
    /\ fb_at["s1"].at = "feedback"
    /\ fb_at["s1"].feedback_type = "corrected"
    /\ fb_at["s1"].correction = <<"SELECT 1">>
    /\ Len(feedback_data["s1"].sessions) = 2
    /\ \E i \in DOMAIN patterns["s1"] :
          /\ patterns["s1"][i].phrase = "ledgers"
          /\ patterns["s1"][i].success_count >= 1
          /\ patterns["s1"][i].fail_count >= 1

----------------------------------------------------------------------------
\* The schema catalog (schema_manager.py).  Every Streamlit session builds
\* its own SchemaManager on the same tally_database.db (app.py 31-32).

MaxReloads == 1

\* the tables of the dict literal of load_tally_schema
CatalogTables == {TallySchema[i].name : i \in DOMAIN TallySchema}

\* drop_order of _create_tally_database: the tables it drops and recreates
DropOrder ==
    <<"trn_attendance", "trn_payhead", "trn_inventory", "trn_accounting",
      "trn_voucher", "mst_employee", "mst_stock_item", "mst_vouchertype",
      "mst_ledger", "mst_group", "config">>

DbTables == {DropOrder[i] : i \in DOMAIN DropOrder}

\* a dict is an object of the heap; `ref` names it and `of[ref]` is its keys.
\* A loader that fills the dict the manager already has
BindInPlace(of, ref) == [heap |-> [of EXCEPT ![ref] = CatalogTables], ref |-> ref]

\* self.schema = {...}: the literal is built as a new dict, complete, and
\* the attribute is bound to it in one store
BindCatalog(of, ref) == [heap |-> Append(of, CatalogTables), ref |-> Len(of) + 1]

\* a constructor that loads whatever it finds
AlwaysLoad(tables) == TRUE

\* `if not tables:` of _ensure_database_exists
NeedsLoad(tables) == tables = {}

\* __init__ up to the call of _ensure_database_exists: a new empty dict
Construct(s) ==
    /\ mgr[s].pc = "none"
    /\ heap' = Append(heap, {})
    /\ mgr' = [mgr EXCEPT ![s] = [@ EXCEPT !.pc = "ensure", !.schema = Len(heap) + 1,
                                           !.connection = "None"]]
    /\ UNCHANGED <<mainVars, fbVars, judgeVars, nlVars, artifact, patterns, hint,
                   resolution, db, held>>

\* _ensure_database_exists up to its call of load_tally_schema: the file is
\* created if missing, the connection opened and sqlite_master read; an
\* exception leaves the manager without connection.  The constructor
\* returns, and the session keeps the manager, unless the catalog is loaded
\* first.
EnsureDatabase(s, fault) ==
    /\ mgr[s].pc = "ensure"
    /\ mgr' = [mgr EXCEPT ![s] =
                 IF fault = "error"
                 THEN [@ EXCEPT !.pc = "ready", !.connection = "None",
                                !.found = "error", !.published = TRUE]
                 ELSE [@ EXCEPT !.pc = IF NeedsLoad(db) THEN "load" ELSE "ready",
                                !.connection = "conn",
                                !.found = IF db = {} THEN "empty" ELSE "tables",
                                !.published = ~NeedsLoad(db)]]
    /\ UNCHANGED <<mainVars, fbVars, judgeVars, nlVars, artifact, patterns, hint,
                   resolution, heap, db, held>>

\* the reloads of the two sessions so far
Reloads == mgr["s1"].reloads + mgr["s2"].reloads

\* the "Reload Tally Schema" button (app.py 166-171) calls load_tally_schema
Reload(s) ==
    /\ mgr[s].pc = "ready"
    /\ mgr[s].published
    /\ Reloads < MaxReloads
    /\ mgr' = [mgr EXCEPT ![s] = [@ EXCEPT !.pc = "load", !.reloads = @ + 1]]
    /\ UNCHANGED <<mainVars, fbVars, judgeVars, nlVars, artifact, patterns, hint,
                   resolution, heap, db, held>>

\* load_tally_schema, its assignment of self.schema
LoadTallySchema(s) ==
    /\ mgr[s].pc = "load"
    /\ LET out == BindCatalog(heap, mgr[s].schema)
       IN  /\ heap' = out.heap
           /\ mgr' = [mgr EXCEPT ![s] = [@ EXCEPT !.pc = "drop", !.schema = out.ref]]
    /\ UNCHANGED <<mainVars, fbVars, judgeVars, nlVars, artifact, patterns, hint,
                   resolution, db, held>>

\* _create_tally_database up to its DROP TABLE statements: the connection is
\* closed and opened again and the tables are dropped; an exception ends the
\* load (caught in load_tally_schema)
DropTables(s, fault) ==
    /\ mgr[s].pc = "drop"
    /\ IF fault = "error"
       THEN /\ mgr' = [mgr EXCEPT ![s] = [@ EXCEPT !.pc = "ready", !.published = TRUE,
                         !.connection = IF @ = "None" THEN "None" ELSE "closed"]]
            /\ db' = db
       ELSE /\ mgr' = [mgr EXCEPT ![s] = [@ EXCEPT !.pc = "create", !.connection = "conn"]]
            /\ db' = db \ DbTables
    /\ UNCHANGED <<mainVars, fbVars, judgeVars, nlVars, artifact, patterns, hint,
                   resolution, heap, held>>

\* the rest of _create_tally_database: the tables are created, config first,
\* filled and committed; an exception ends the load with what was created
CreateTables(s, fault) ==
    /\ mgr[s].pc = "create"
    /\ db' = IF fault = "error" THEN db \cup {"config"} ELSE db \cup DbTables
    /\ mgr' = [mgr EXCEPT ![s] = [@ EXCEPT !.pc = "ready", !.published = TRUE]]
    /\ UNCHANGED <<mainVars, fbVars, judgeVars, nlVars, artifact, patterns, hint,
                   resolution, heap, held>>

\* get_schema(): reader r gets the dict of the manager of session s; `seen`
\* keeps the tables it held at that moment
GetSchema(r, s) ==
    /\ mgr[s].published
    /\ held' = [held EXCEPT ![r] =
                  <<[ref |-> mgr[s].schema, seen |-> heap[mgr[s].schema], from |-> s,
                     loading |-> mgr[s].pc \in {"drop", "create"}]>>]
    /\ UNCHANGED <<mainVars, fbVars, judgeVars, nlVars, artifact, patterns, hint,
                   resolution, mgr, heap, db>>

(* SpecSchema: two sessions construct their managers over the same         *)
(* database file, reload their catalogs and read them, in any order.       *)
InitSchema ==
    /\ InitFields
    /\ sql_result = NoResult
    /\ call = NoCall
    /\ InitVal
    /\ InitExec
    /\ InitFeedback
    /\ InitJudge
    /\ InitNoParser
    /\ artifact = <<>>
    /\ patterns = [s \in {"s1", "s2"} |-> <<>>]
    /\ hint = [field |-> "", tables |-> <<>>]
    /\ resolution = <<>>
    /\ mgr = [s \in Sessions |->
                [pc |-> "none", schema |-> 0, connection |-> "None",
                 published |-> FALSE, found |-> "", reloads |-> 0]]
    /\ heap = <<>>
    /\ db \in {{}, DbTables}
    /\ held = [s \in Sessions |-> <<>>]

NextSchema ==
    \/ \E s \in Sessions : Construct(s)
    \/ \E s \in Sessions, fault \in {"", "error"} : EnsureDatabase(s, fault)
    \/ \E s \in Sessions : Reload(s)
    \/ \E s \in Sessions : LoadTallySchema(s)
    \/ \E s \in Sessions, fault \in {"", "error"} : DropTables(s, fault)
    \/ \E s \in Sessions, fault \in {"", "error"} : CreateTables(s, fault)
    \/ \E r \in Sessions, s \in Sessions : GetSchema(r, s)

SpecSchema == InitSchema /\ [][NextSchema]_vars

\* C26: a reader that calls get_schema() while load_tally_schema() runs in
\* another session gets either the complete old catalog or the complete new
\* one, never a partly filled one, and a dict a reader holds is not changed
\* by a reload.
C26_AtomicSwap ==
    /\ \A ref \in DOMAIN heap : heap[ref] \in {{}, CatalogTables}
    /\ \A r \in Sessions :
          held[r] # <<>> =>
              /\ held[r][1].seen \in {{}, CatalogTables}
              /\ heap[held[r][1].ref] = held[r][1].seen

\* a reader holds the empty dict of another session's manager, which has
\* been reloaded since, and the other reader read that manager during the
\* reload and holds the new catalog
C26_Witness ==
    /\ held["s1"] # <<>>
    /\ held["s2"] # <<>>
    /\ held["s1"][1].from = "s2"
    /\ held["s1"][1].seen = {}
    /\ held["s1"][1].ref # mgr["s2"].schema
    /\ held["s2"][1].from = "s2"
    /\ held["s2"][1].loading
    /\ held["s2"][1].ref = mgr["s2"].schema
    /\ held["s2"][1].seen = CatalogTables

\* the catalog of a manager, by its tables
Catalog(s) == IF mgr[s].schema = 0 THEN {} ELSE heap[mgr[s].schema]

\* C30: a SchemaManager constructed over a database that already has tables
\* has an empty catalog until load_tally_schema() is called; the catalog is
\* populated during construction only when the database has no tables; and a
\* populated catalog is never emptied again.
C30_EmptyUntilLoaded ==
    /\ [](\A s \in Sessions :
            /\ (mgr[s].found = "tables" /\ mgr[s].reloads = 0) => Catalog(s) = {}
            /\ (mgr[s].reloads = 0 /\ Catalog(s) # {}) => mgr[s].found = "empty")
    /\ [][\A s \in Sessions : Catalog(s) # {} => Catalog(s)' # {}]_vars

\* one manager was constructed over the tables another had created and is
\* still empty, while the other, constructed over an empty file, is loaded
C30_Witness ==
    /\ mgr["s1"].published
    /\ mgr["s1"].found = "empty"
    /\ Catalog("s1") = CatalogTables
    /\ mgr["s2"].published
    /\ mgr["s2"].found = "tables"
    /\ mgr["s2"].reloads = 0
    /\ Catalog("s2") = {}

============================================================================
